---- MODULE Spec2Model ----
(***************************************************************************)
(* A model of the transcendental stream / pattern engine:                  *)
(*   src/src/transcendental/digits.py    DigitStore                         *)
(*   src/src/transcendental/streams.py   stream synthesis, StreamGenerator  *)
(*   src/src/transcendental/patterns.py  Pattern, PatternMatcher            *)
(*   src/src/crypto/keys.py              PrivateKey, PublicKey              *)
(*   src/src/crypto/encryption.py        encrypt_data, decrypt_data         *)
(*                                                                         *)
(* Several specifications share the module:                                *)
(*   SpecDigits     one DigitStore and its callers                         *)
(*   SpecSource     a fresh DigitStore over missing or altered files       *)
(*   SpecCache      the arrays of a DigitStore as objects                  *)
(*   SpecThreads    threads reading through one DigitStore                 *)
(*   SpecStream     generate_synthetic_stream and its chunk workers        *)
(*   SpecAccumulate the accumulation loops of _generate_stream_chunk       *)
(*   SpecSearch     Pattern.match_at_position and the pattern searches     *)
(*   SpecSearchFair the searches with fair workers, for termination        *)
(*   SpecHash       PatternMatcher.hash_follow_sequences                   *)
(*   SpecDerive     PublicKey.derive_encryption_key                        *)
(*   SpecOffsets    _generate_offsets_from_seed                            *)
(*   SpecGenerator  the StreamGenerator singleton and its callers          *)
(*   SpecStreamCache the arrays of a StreamGenerator as objects            *)
(*   SpecEntry      the three ways into stream synthesis                   *)
(*   SpecConstruct  construction of a Pattern and a PrivateKey             *)
(*   SpecKeys       key objects, public keys, envelopes                    *)
(* Each one leaves the variables of the others at their idle values.       *)
(***************************************************************************)
EXTENDS Integers, Sequences, FiniteSets, TLC

VARIABLES
    \* ---- DigitStore (digits.py)
    pi_text,      \* bytes of pi_1m.txt
    e_text,       \* bytes of e_1m.txt
    mmap_open,    \* _pi_mmap / _e_mmap are set (open() sets both, close() clears both)
    pi_cache,     \* _pi_cache: (start, length) -> digits
    e_cache,      \* _e_cache
    obs,          \* what the callers of get_pi_digits / get_e_digits were handed
    \* ---- generate_synthetic_stream (streams.py)
    syn_in,       \* the arguments pi_offsets, e_offsets, length, modulus (Nothing: idle)
    syn_threads,  \* the threads argument of the call in progress (0: no call)
    syn_futures,  \* futures: the chunk results, None while a worker has not finished
    streams,      \* threads -> the stream a finished call returned
    \* ---- Pattern and PatternMatcher (patterns.py)
    pat_in,       \* the stream, the Pattern and PatternMatcher.follow_digits
    match_obs,    \* what a call of Pattern.match_at_position returned
    search_args,  \* start_from, max_positions of the searches, threads of the parallel one
    seq_result,   \* what _find_pattern_sequential returned
    par_futures,  \* _find_pattern_parallel: futures, one per chunk
    par_next,     \* its loop "for future in futures": the next future (0: not in the loop)
    par_results,  \* its list results
    par_result,   \* what it returned
    \* ---- keys.py, encryption.py, and the StreamGenerator singleton of streams.py
    keys,         \* the PrivateKey objects "A" and "B" (Nothing: not constructed)
    generator,    \* _stream_generator (Nothing: None)
    public_key,   \* the PublicKey that A.get_public_key returned
    envelope,     \* the EncryptedData that encrypt_data returned
    call,         \* the last call on a key object and what it returned
    \* ---- callers of the module-level functions
    find_obs,     \* what a call of PatternMatcher.find_pattern returned
    gen_obs,      \* what the calls on the stream generator returned, by arguments
    args,         \* the arguments of calls of one function
    rets          \* what those calls returned

digvars == <<pi_text, e_text, mmap_open, pi_cache, e_cache, obs>>
synvars == <<syn_in, syn_threads, syn_futures, streams>>
patvars == <<pat_in, match_obs, search_args, seq_result, par_futures, par_next,
             par_results, par_result>>

keyvars == <<keys, generator, public_key, envelope, call>>

auxvars == <<find_obs, gen_obs, args, rets>>

vars == <<digvars, synvars, patvars, keyvars, auxvars>>

\* what the DigitStore's own operations leave alone
notdig == <<synvars, patvars, keyvars, auxvars>>
\* what stream synthesis leaves alone
notsyn == <<digvars, patvars, keyvars, auxvars>>
\* what Pattern and PatternMatcher leave alone
notpat == <<digvars, synvars, keyvars, auxvars>>
\* what the key objects, the generator singleton and the envelopes leave alone
notkey == <<digvars, synvars, patvars, auxvars>>

(***************************************************************************)
(* Bounds of the model.                                                    *)
(***************************************************************************)
\* fractional digits held by each digit file (the files of the program hold 10^6)
StoredDigits == 3
\* largest start a caller passes to get_pi_digits / get_e_digits
MaxStart == 4
\* largest length a caller passes
MaxLen == 2
\* calls whose results are kept in obs
MaxCalls == 3
\* the range-cache limit of digits.py:217 and :281 (100 there)
CacheLimit == 2
\* most offsets in the pi_offsets list handed to generate_synthetic_stream
MaxPiOffsets == 2
\* most offsets in the e_offsets list
MaxEOffsets == 1
\* largest length of a synthesized stream
MaxStreamLen == 3
\* largest threads argument
MaxThreads == 3
\* longest stream handed to the pattern searches
MaxSearchLen == 5
\* most digits in a Pattern
MaxPatternLen == 2
\* largest gap in Pattern.spacing
MaxSpacing == 1
\* largest PatternMatcher.follow_digits
MaxFollow == 2
\* largest start_from
MaxStartFrom == 1
\* largest max_positions
MaxPositions == 2
\* largest PatternMatcher.threads
MaxSearchThreads == 2
\* the least chunk size of patterns.py:264 (1000 there)
MinChunkSize == 2

(***************************************************************************)
(* Python values.                                                          *)
(***************************************************************************)
None == "None"
ValueError == "ValueError"

\* how a call ends: it returns a value or raises
Return(v) == [raised |-> None, value |-> v]
Raise(e) == [raised |-> e, value |-> <<>>]

\* a slot that holds a value or nothing yet
Nothing == <<>>
Some(v) == <<v>>
ValueOf(slot) == slot[1]

Min(a, b) == IF a < b THEN a ELSE b
Max(a, b) == IF a > b THEN a ELSE b

\* the element of a one-element set; Only({F(x) : x \in {e}}) is F(e) with e
\* evaluated once
Only(S) == CHOOSE x \in S : TRUE

(***************************************************************************)
(* digits.py: the digit files.  A file is a sequence of characters: 0..9   *)
(* is that decimal digit, Dot the radix point, Newline any other           *)
(* character.                                                              *)
(***************************************************************************)
Dot == 10
Newline == 11

\* PI_START and E_START (digits.py:24-25): the fractional digits, first ten
PiFraction == <<1, 4, 1, 5, 9, 2, 6, 5, 3, 5>>
EFraction == <<7, 1, 8, 2, 8, 1, 8, 2, 8, 4>>

\* what download_digits writes: the constant's text, no trailing newline
PiFile == <<3, Dot>> \o SubSeq(PiFraction, 1, StoredDigits)
EFile == <<2, Dot>> \o SubSeq(EFraction, 1, StoredDigits)

\* a digit file as shipped or as written: with or without a final newline
PiFiles == {PiFile, PiFile \o <<Newline>>}
EFiles == {EFile, EFile \o <<Newline>>}

IsDigit(ch) == ch \in 0..9

\* mmap[pos], pos counted from 0
CharAt(text, pos) == text[pos + 1]

\* digits.py:190-192 "Skip the decimal point at the beginning"
RECURSIVE FindDot(_, _)
FindDot(text, pos) ==
    IF pos < Len(text) /\ CharAt(text, pos) # Dot
    THEN FindDot(text, pos + 1)
    ELSE pos

\* digits.py:196-202: the inner while loop of one iteration of "Skip 'start' digits"
RECURSIVE SkipOneDigit(_, _)
SkipOneDigit(text, pos) ==
    IF pos < Len(text)
    THEN IF IsDigit(CharAt(text, pos))
         THEN pos + 1                                         \* break
         ELSE SkipOneDigit(text, IF pos + 1 >= Len(text) THEN 0 ELSE pos + 1)
    ELSE pos

\* digits.py:195: for _ in range(start)
RECURSIVE SkipDigits(_, _, _)
SkipDigits(text, pos, n) ==
    IF n <= 0 THEN pos ELSE SkipDigits(text, SkipOneDigit(text, pos), n - 1)

\* digits.py:205-214: "Read 'length' digits"
RECURSIVE ReadDigits(_, _, _)
ReadDigits(text, pos, n) ==
    IF n <= 0
    THEN <<>>
    ELSE LET p == IF pos >= Len(text) THEN 0 ELSE pos
             ch == CharAt(text, p)
         IN  IF IsDigit(ch)
             THEN <<ch>> \o ReadDigits(text, p + 1, n - 1)
             ELSE ReadDigits(text, p + 1, n)

\* digits.py:184-214: the digits a cache miss extracts
ExtractDigits(text, start, length) ==
    ReadDigits(text, SkipDigits(text, FindDot(text, 0) + 1, start), length)

\* digits.py:216-218: "Cache result for future use (up to a limit)"
CachePut(cache, key, digits) ==
    IF Cardinality(DOMAIN cache) < CacheLimit
    THEN [k \in DOMAIN cache \cup {key} |-> IF k = key THEN digits ELSE cache[k]]
    ELSE cache

EmptyCache == [k \in {} |-> <<>>]

\* what one call returns, digits.py:172-220
DigitsResult(text, cache, start, length) ==
    IF start < 0 \/ length <= 0 THEN Raise(ValueError)
    ELSE IF <<start, length>> \in DOMAIN cache THEN Return(cache[<<start, length>>])
    ELSE Return(ExtractDigits(text, start, length))

\* the cache after one call
DigitsCache(text, cache, start, length) ==
    IF start < 0 \/ length <= 0 THEN cache
    ELSE IF <<start, length>> \in DOMAIN cache THEN cache
    ELSE CachePut(cache, <<start, length>>, ExtractDigits(text, start, length))

\* the mmaps after one call: a miss opens both files (digits.py:181-182, 125-144)
DigitsOpen(cache, start, length, isopen) ==
    IF start < 0 \/ length <= 0 THEN isopen
    ELSE IF <<start, length>> \in DOMAIN cache THEN isopen
    ELSE TRUE

Observation(c, start, length, res) == [c |-> c, start |-> start, length |-> length, res |-> res]

Record(o) == IF Cardinality(obs) < MaxCalls THEN obs \cup {o} ELSE obs

\* the (start, length) pairs callers pass: every valid pair within the bounds, and
\* one pair for each way digits.py:172 rejects
CallArgs == ((0..MaxStart) \X (1..MaxLen)) \cup {<<-1, 1>>, <<0, 0>>}

\* a fresh DigitStore over the installed files
StoreInit ==
    /\ pi_text \in PiFiles
    /\ e_text \in EFiles
    /\ mmap_open = FALSE
    /\ pi_cache = EmptyCache
    /\ e_cache = EmptyCache
    /\ obs = {}

\* no synthesis call
SynIdle ==
    /\ syn_in = Nothing
    /\ syn_threads = 0
    /\ syn_futures = <<>>
    /\ streams = <<>>

\* no pattern search
PatIdle ==
    /\ pat_in = Nothing
    /\ match_obs = Nothing
    /\ search_args = Nothing
    /\ seq_result = Nothing
    /\ par_futures = <<>>
    /\ par_next = 0
    /\ par_results = <<>>
    /\ par_result = Nothing

\* the digit files installed, the DigitStore not used
StoreIdle ==
    /\ pi_text = PiFile
    /\ e_text = EFile
    /\ mmap_open = FALSE
    /\ pi_cache = EmptyCache
    /\ e_cache = EmptyCache
    /\ obs = {}

\* no key object, no generator singleton
KeysIdle ==
    /\ keys = <<>>
    /\ generator = Nothing
    /\ public_key = Nothing
    /\ envelope = Nothing
    /\ call = Nothing

\* no call of find_pattern, none on the stream generator
AuxIdle ==
    /\ find_obs = Nothing
    /\ gen_obs = {}
    /\ args = Nothing
    /\ rets = Nothing

DigitsInit == StoreInit /\ SynIdle /\ PatIdle /\ KeysIdle /\ AuxIdle

\* DigitStore.get_pi_digits
GetPiDigits(start, length) ==
    /\ Cardinality(obs) < MaxCalls
    /\ obs' = Record(Observation("pi", start, length,
                                 DigitsResult(pi_text, pi_cache, start, length)))
    /\ pi_cache' = DigitsCache(pi_text, pi_cache, start, length)
    /\ mmap_open' = DigitsOpen(pi_cache, start, length, mmap_open)
    /\ UNCHANGED <<pi_text, e_text, e_cache>>
    /\ UNCHANGED notdig

\* DigitStore.get_e_digits
GetEDigits(start, length) ==
    /\ Cardinality(obs) < MaxCalls
    /\ obs' = Record(Observation("e", start, length,
                                 DigitsResult(e_text, e_cache, start, length)))
    /\ e_cache' = DigitsCache(e_text, e_cache, start, length)
    /\ mmap_open' = DigitsOpen(e_cache, start, length, mmap_open)
    /\ UNCHANGED <<pi_text, e_text, pi_cache>>
    /\ UNCHANGED notdig

\* DigitStore.open
Open ==
    /\ mmap_open' = TRUE
    /\ UNCHANGED <<pi_text, e_text, pi_cache, e_cache, obs>>
    /\ UNCHANGED notdig

\* DigitStore.close
Close ==
    /\ mmap_open
    /\ mmap_open' = FALSE
    /\ UNCHANGED <<pi_text, e_text, pi_cache, e_cache, obs>>
    /\ UNCHANGED notdig

DigitsNext ==
    \/ \E a \in CallArgs : GetPiDigits(a[1], a[2])
    \/ \E a \in CallArgs : GetEDigits(a[1], a[2])
    \/ Open
    \/ Close

SpecDigits == DigitsInit /\ [][DigitsNext]_vars

(***************************************************************************)
(* digits.py: a fresh DigitStore over digit files that may be missing or   *)
(* altered.  The files on disk are [pi, e], each Nothing (no such file) or *)
(* Some(text).                                                             *)
(***************************************************************************)
FileNotFoundError == "FileNotFoundError"

\* PI_START and E_START whole, digits.py:24-25
PiStart == <<3, Dot>> \o PiFraction
EStart == <<2, Dot>> \o EFraction

\* the 10 of PI_START[:10], digits.py:108 and :115
PrefixChecked == 10

\* text.startswith(prefix)
StartsWith(text, prefix) ==
    Len(text) >= Len(prefix) /\ SubSeq(text, 1, Len(prefix)) = prefix

\* DigitStore.verify_digits, digits.py:94-123
VerifyDigitsOf(files) ==
    IF files.pi = Nothing \/ files.e = Nothing THEN FALSE
    ELSE IF ~StartsWith(SubSeq(ValueOf(files.pi), 1, Min(Len(PiStart), Len(ValueOf(files.pi)))),
                        SubSeq(PiStart, 1, PrefixChecked))
         THEN FALSE
    ELSE IF ~StartsWith(SubSeq(ValueOf(files.e), 1, Min(Len(EStart), Len(ValueOf(files.e)))),
                        SubSeq(EStart, 1, PrefixChecked))
         THEN FALSE
    ELSE TRUE

\* DigitStore.open, digits.py:125-144: the two mmaps, or FileNotFoundError
OpenOf(files) ==
    IF files.pi = Nothing \/ files.e = Nothing
    THEN Raise(FileNotFoundError)
    ELSE Return([pi |-> ValueOf(files.pi), e |-> ValueOf(files.e)])

\* get_pi_digits ("pi") and get_e_digits ("e") on a DigitStore not opened yet,
\* digits.py:172-220, 236-284
GetDigitsOf(files, which, start, length) ==
    IF start < 0 \/ length <= 0 THEN Raise(ValueError)
    ELSE LET opened == OpenOf(files)
         IN  IF opened.raised # None THEN opened
             ELSE Return(ExtractDigits(opened.value[which], start, length))

\* a file with the character at place i replaced by another digit
AlteredAt(text, i) == [text EXCEPT ![i] = (text[i] + 1) % 10]

\* a digit file: missing, as written by download_digits, or altered at its
\* first fractional digit or at its last character
SourceFiles(text) ==
    {Nothing, Some(text), Some(AlteredAt(text, 3)), Some(AlteredAt(text, Len(text)))}

SourceInit ==
    /\ StoreIdle
    /\ SynIdle
    /\ PatIdle
    /\ KeysIdle
    /\ find_obs = Nothing
    /\ gen_obs = {}
    /\ args \in [pi : SourceFiles(PiStart), e : SourceFiles(EStart)]
    /\ rets = [verified |-> Nothing, pi |-> Nothing, e |-> Nothing]

\* verify_digits()
VerifyDigits ==
    /\ rets.verified = Nothing
    /\ rets' = [rets EXCEPT !.verified = Some(VerifyDigitsOf(args))]
    /\ UNCHANGED <<digvars, synvars, patvars, keyvars, find_obs, gen_obs, args>>

\* get_pi_digits(start, length) or get_e_digits(start, length), the first read
\* of that constant
ReadDigitsOf(which, start, length) ==
    /\ rets[which] = Nothing
    /\ rets' = [rets EXCEPT ![which] = Some(GetDigitsOf(args, which, start, length))]
    /\ UNCHANGED <<digvars, synvars, patvars, keyvars, find_obs, gen_obs, args>>

SourceNext ==
    \/ VerifyDigits
    \/ \E which \in {"pi", "e"}, start \in {-1, 0, 1}, length \in {1, MaxLen} :
           ReadDigitsOf(which, start, length)

SpecSource == SourceInit /\ [][SourceNext]_vars

(***************************************************************************)
(* digits.py: the arrays of a DigitStore as objects.  heap[id] is the      *)
(* content of the array object id; a cache maps (start, length) to the id  *)
(* of the array it holds, and the caller holds the ids it was returned.    *)
(* The heap is kept in args, the caller's ids in rets.                     *)
(***************************************************************************)
\* a new array object: np.zeros(length) filled at digits.py:185-214
NewArray(heap, data) == [heap |-> Append(heap, data), id |-> Len(heap) + 1]

\* ndarray.copy() as it would be if it handed back the array itself
SameArray(heap, id) == [heap |-> heap, id |-> id]

\* ndarray.copy(), digits.py:178 and :218: a new object with the same content
CopyArray(heap, id) == NewArray(heap, heap[id])

\* get_pi_digits / get_e_digits over array objects, digits.py:172-220:
\* what the call returns, the id returned, the cache and the heap after it
GetDigitsShared(text, cache, heap, start, length) ==
    IF start < 0 \/ length <= 0
    THEN [ret |-> Raise(ValueError), id |-> Nothing, cache |-> cache, heap |-> heap]
    ELSE IF <<start, length>> \in DOMAIN cache
    THEN LET copied == CopyArray(heap, cache[<<start, length>>])
         IN  [ret |-> Return(copied.heap[copied.id]), id |-> Some(copied.id),
              cache |-> cache, heap |-> copied.heap]
    ELSE LET digits == NewArray(heap, ExtractDigits(text, start, length))
             stored == CopyArray(digits.heap, digits.id)
         IN  IF Cardinality(DOMAIN cache) < CacheLimit
             THEN [ret |-> Return(digits.heap[digits.id]), id |-> Some(digits.id),
                   cache |-> CachePut(cache, <<start, length>>, stored.id),
                   heap |-> stored.heap]
             ELSE [ret |-> Return(digits.heap[digits.id]), id |-> Some(digits.id),
                   cache |-> cache, heap |-> digits.heap]

\* the requests of the callers that share the store
SharedArgs == ({0, 1} \X {1, MaxLen}) \cup {<<-1, 1>>}

CacheInit ==
    /\ StoreIdle
    /\ SynIdle
    /\ PatIdle
    /\ KeysIdle
    /\ find_obs = Nothing
    /\ gen_obs = {}
    /\ args = <<>>
    /\ rets = {}

\* the caller keeps the array it was returned
Held(ids, r) == IF r.id = Nothing THEN ids ELSE ids \cup {ValueOf(r.id)}

\* a call of get_pi_digits(start, length)
GetPiDigitsShared(start, length) ==
    /\ Len(args) + 2 <= 2 * MaxCalls
    /\ \E r \in {GetDigitsShared(pi_text, pi_cache, args, start, length)} :
           /\ obs' = obs \cup {Observation("pi", start, length, r.ret)}
           /\ pi_cache' = r.cache
           /\ args' = r.heap
           /\ rets' = Held(rets, r)
    /\ mmap_open' = DigitsOpen(pi_cache, start, length, mmap_open)
    /\ UNCHANGED <<pi_text, e_text, e_cache>>
    /\ UNCHANGED <<synvars, patvars, keyvars, find_obs, gen_obs>>

\* a call of get_e_digits(start, length)
GetEDigitsShared(start, length) ==
    /\ Len(args) + 2 <= 2 * MaxCalls
    /\ \E r \in {GetDigitsShared(e_text, e_cache, args, start, length)} :
           /\ obs' = obs \cup {Observation("e", start, length, r.ret)}
           /\ e_cache' = r.cache
           /\ args' = r.heap
           /\ rets' = Held(rets, r)
    /\ mmap_open' = DigitsOpen(e_cache, start, length, mmap_open)
    /\ UNCHANGED <<pi_text, e_text, pi_cache>>
    /\ UNCHANGED <<synvars, patvars, keyvars, find_obs, gen_obs>>

\* the caller writes into an array it was returned: digits[0] = 9 - digits[0]
MutateReturned(id) ==
    /\ id \in rets
    /\ args' = [args EXCEPT ![id][1] = 9 - @]
    /\ UNCHANGED <<digvars, synvars, patvars, keyvars, find_obs, gen_obs, rets>>

CacheNext ==
    \/ \E a \in SharedArgs : GetPiDigitsShared(a[1], a[2])
    \/ \E a \in {<<0, MaxLen>>} : GetEDigitsShared(a[1], a[2])
    \/ Open
    \/ Close
    \/ \E id \in 1..(2 * MaxCalls) : MutateReturned(id)

SpecCache == CacheInit /\ [][CacheNext]_vars

(***************************************************************************)
(* digits.py: threads that read through one DigitStore.  No lock guards    *)
(* the caches, so a thread can be preempted between the statements of      *)
(* get_pi_digits / get_e_digits; rets[t] is where thread t stands in its   *)
(* call: Nothing (no call), or the request with the digits it extracted    *)
(* and at = "extracted" (before digits.py:217) or "storing" (inside the    *)
(* if, before :218).                                                       *)
(***************************************************************************)
Readers == {"t1", "t2"}

ThreadsInit ==
    /\ StoreIdle
    /\ SynIdle
    /\ PatIdle
    /\ KeysIdle
    /\ find_obs = Nothing
    /\ gen_obs = {}
    /\ args = Nothing
    /\ rets = [t \in Readers |-> Nothing]

\* digits.py:172-214 (236-278): thread t enters the call, misses the cache and
\* extracts the digits; invalid requests and cache hits return at once
StartRead(t, c, start, length) ==
    /\ rets[t] = Nothing
    /\ start >= 0 /\ length > 0
    /\ <<start, length>> \notin DOMAIN (IF c = "pi" THEN pi_cache ELSE e_cache)
    /\ rets' = [rets EXCEPT ![t] =
                    Some([c |-> c, key |-> <<start, length>>, at |-> "extracted",
                          digits |-> ExtractDigits(IF c = "pi" THEN pi_text ELSE e_text,
                                                   start, length)])]
    /\ mmap_open' = TRUE
    /\ UNCHANGED <<pi_text, e_text, pi_cache, e_cache, obs>>
    /\ UNCHANGED <<synvars, patvars, keyvars, find_obs, gen_obs, args>>

\* digits.py:217 (:281): "if len(self._pi_cache) < 100"
CheckLimit(t) ==
    /\ rets[t] # Nothing
    /\ ValueOf(rets[t]).at = "extracted"
    /\ rets' = [rets EXCEPT ![t] =
                    IF Cardinality(DOMAIN (IF ValueOf(rets[t]).c = "pi"
                                           THEN pi_cache ELSE e_cache)) < CacheLimit
                    THEN Some([ValueOf(rets[t]) EXCEPT !.at = "storing"])
                    ELSE Nothing]
    /\ UNCHANGED <<digvars, synvars, patvars, keyvars, find_obs, gen_obs, args>>

\* the cache with the entry set, whatever its size
StoreEntry(cache, key, digits) ==
    [k \in DOMAIN cache \cup {key} |-> IF k = key THEN digits ELSE cache[k]]

\* digits.py:218 (:282): "self._pi_cache[cache_key] = digits.copy()", and the return
StoreInCache(t) ==
    /\ rets[t] # Nothing
    /\ ValueOf(rets[t]).at = "storing"
    /\ LET r == ValueOf(rets[t])
       IN  IF r.c = "pi"
           THEN /\ pi_cache' = StoreEntry(pi_cache, r.key, r.digits)
                /\ UNCHANGED e_cache
           ELSE /\ e_cache' = StoreEntry(e_cache, r.key, r.digits)
                /\ UNCHANGED pi_cache
    /\ rets' = [rets EXCEPT ![t] = Nothing]
    /\ UNCHANGED <<pi_text, e_text, mmap_open, obs>>
    /\ UNCHANGED <<synvars, patvars, keyvars, find_obs, gen_obs, args>>

ThreadsNext ==
    \/ \E t \in Readers, c \in {"pi", "e"}, a \in SharedArgs :
           StartRead(t, c, a[1], a[2])
    \/ \E t \in Readers : CheckLimit(t)
    \/ \E t \in Readers : StoreInCache(t)

SpecThreads == ThreadsInit /\ [][ThreadsNext]_vars

(***************************************************************************)
(* streams.py: generate_synthetic_stream.  The chunk workers are pool      *)
(* processes; each reads the digit files through the DigitStore of its own *)
(* process, whose cache entries are copies of what ExtractDigits yields,   *)
(* so a worker's read is ExtractDigits of the file.                        *)
(***************************************************************************)
\* np.uint8: the dtype of result and of the digit arrays (streams.py:92, digits.py:185)
Uint8 == 256

\* the offsets callers pass: inside the stored digits, at their end, and past it
Offsets == {0, StoredDigits - 1, StoredDigits + 1}

\* the moduli callers pass
Moduli == {3, 10}

RECURSIVE SeqsUpTo(_, _)
\* the sequences over S of length at most n
SeqsUpTo(S, n) ==
    IF n = 0 THEN {<<>>}
    ELSE LET shorter == SeqsUpTo(S, n - 1)
         IN  shorter \cup {Append(q, x) : q \in shorter, x \in S}

\* streams.py:48-49
ChunkSize(length, threads) == Max(1, length \div threads)

Chunks(length, threads) ==
    LET cs == ChunkSize(length, threads)
        n == IF length <= 0 THEN 0 ELSE (length + cs - 1) \div cs
    IN  [k \in 1..n |-> <<(k - 1) * cs, Min(k * cs, length)>>]

\* streams.py:104 and :113: result = (result + chunk) % modulus on uint8 arrays
AddChunk(result, chunk, modulus) ==
    [j \in 1..Len(result) |-> ((result[j] + chunk[j]) % Uint8) % modulus]

\* streams.py:98-104 (and 107-113): one loop over an offset list
RECURSIVE AddOffsets(_, _, _, _, _, _)
AddOffsets(result, text, offsets, start, chunk_length, modulus) ==
    IF offsets = <<>>
    THEN result
    ELSE AddOffsets(
             AddChunk(result, ExtractDigits(text, Head(offsets) + start, chunk_length), modulus),
             text, Tail(offsets), start, chunk_length, modulus)

\* streams.py:71-115: _generate_stream_chunk
GenerateStreamChunk(start, end, pi_offsets, e_offsets, modulus) ==
    LET chunk_length == end - start
        zeros == [j \in 1..chunk_length |-> 0]
        after_pi == AddOffsets(zeros, pi_text, pi_offsets, start, chunk_length, modulus)
    IN  AddOffsets(after_pi, e_text, e_offsets, start, chunk_length, modulus)

\* np.concatenate(results), streams.py:69
RECURSIVE Concatenate(_)
Concatenate(results) ==
    IF results = <<>> THEN <<>> ELSE Head(results) \o Concatenate(Tail(results))

SynInputs ==
    [pi_offsets : SeqsUpTo(Offsets, MaxPiOffsets),
     e_offsets : SeqsUpTo(Offsets, MaxEOffsets),
     length : 1..MaxStreamLen,
     modulus : Moduli]

StreamInit ==
    /\ StoreInit
    /\ PatIdle
    /\ KeysIdle
    /\ AuxIdle
    /\ syn_in \in SynInputs
    /\ syn_threads = 0
    /\ syn_futures = <<>>
    /\ streams = [t \in 1..MaxThreads |-> Nothing]

\* generate_synthetic_stream, streams.py:43-63: the chunks are submitted
SubmitChunks(threads) ==
    /\ syn_threads = 0
    /\ streams[threads] = Nothing
    /\ syn_threads' = threads
    /\ syn_futures' = [k \in DOMAIN Chunks(syn_in.length, threads) |-> Nothing]
    /\ UNCHANGED <<syn_in, streams>>
    /\ UNCHANGED notsyn

\* a pool worker runs _generate_stream_chunk on chunk k
RunStreamChunk(k) ==
    /\ syn_threads # 0
    /\ k \in DOMAIN syn_futures
    /\ syn_futures[k] = Nothing
    /\ LET c == Chunks(syn_in.length, syn_threads)[k]
       IN  syn_futures' = [syn_futures EXCEPT ![k] =
               Some(GenerateStreamChunk(c[1], c[2], syn_in.pi_offsets, syn_in.e_offsets,
                                        syn_in.modulus))]
    /\ UNCHANGED <<syn_in, syn_threads, streams>>
    /\ UNCHANGED notsyn

\* generate_synthetic_stream, streams.py:66-69: every future has its result
CollectChunks ==
    /\ syn_threads # 0
    /\ \A k \in DOMAIN syn_futures : syn_futures[k] # Nothing
    /\ streams' = [streams EXCEPT ![syn_threads] =
           Some(Concatenate([k \in DOMAIN syn_futures |-> ValueOf(syn_futures[k])]))]
    /\ syn_threads' = 0
    /\ syn_futures' = <<>>
    /\ UNCHANGED syn_in
    /\ UNCHANGED notsyn

StreamNext ==
    \/ \E t \in 1..MaxThreads : SubmitChunks(t)
    \/ \E k \in 1..MaxStreamLen : RunStreamChunk(k)
    \/ CollectChunks

SpecStream == StreamInit /\ [][StreamNext]_vars

(***************************************************************************)
(* patterns.py: Pattern.  A Pattern is [digits, spacing]; spacing is       *)
(* Nothing (None) or Some(list of gaps).                                   *)
(***************************************************************************)
\* Pattern.length, patterns.py:39-42
PatternLength(pattern) == Len(pattern.digits)

\* Pattern.is_contiguous, patterns.py:57-59
IsContiguous(pattern) ==
    \/ pattern.spacing = Nothing
    \/ \A i \in DOMAIN ValueOf(pattern.spacing) : ValueOf(pattern.spacing)[i] = 0

\* stream[pos], pos counted from 0
At(stream, pos) == stream[pos + 1]

\* patterns.py:80-87: the contiguous case
MatchContiguous(pattern, stream, start_pos) ==
    IF start_pos + PatternLength(pattern) > Len(stream)
    THEN <<FALSE, -1>>
    ELSE IF \E i \in 0..(PatternLength(pattern) - 1) :
                At(stream, start_pos + i) # pattern.digits[i + 1]
         THEN <<FALSE, -1>>
         ELSE <<TRUE, start_pos + PatternLength(pattern)>>

\* the loop of patterns.py:92-106 as it would be if a gap were counted from the
\* matched digit itself (current_pos + gap)
RECURSIVE MatchSpacedWithoutStep(_, _, _, _)
MatchSpacedWithoutStep(pattern, stream, i, current_pos) ==
    IF i >= PatternLength(pattern)
    THEN <<TRUE, current_pos + 1>>
    ELSE IF current_pos >= Len(stream)
         THEN <<FALSE, -1>>
         ELSE IF At(stream, current_pos) # pattern.digits[i + 1]
              THEN <<FALSE, -1>>
              ELSE IF i < PatternLength(pattern) - 1
                   THEN MatchSpacedWithoutStep(pattern, stream, i + 1,
                                               current_pos + ValueOf(pattern.spacing)[i + 1])
                   ELSE <<TRUE, current_pos + 1>>

\* patterns.py:92-106: the loop over the digits of a pattern with spacing, from
\* digit i (counted from 0) at current_pos
RECURSIVE MatchSpaced(_, _, _, _)
MatchSpaced(pattern, stream, i, current_pos) ==
    IF i >= PatternLength(pattern)
    THEN <<TRUE, current_pos + 1>>
    ELSE IF current_pos >= Len(stream)
         THEN <<FALSE, -1>>
         ELSE IF At(stream, current_pos) # pattern.digits[i + 1]
              THEN <<FALSE, -1>>
              ELSE IF i < PatternLength(pattern) - 1
                   THEN MatchSpaced(pattern, stream, i + 1,
                                    current_pos + 1 + ValueOf(pattern.spacing)[i + 1])
                   ELSE <<TRUE, current_pos + 1>>

\* match_at_position as it would be if the spacing were not looked at
MatchAtPositionIgnoringSpacing(pattern, stream, start_pos) ==
    IF start_pos < 0 \/ start_pos >= Len(stream)
    THEN <<FALSE, -1>>
    ELSE MatchContiguous(pattern, stream, start_pos)

\* Pattern.match_at_position, patterns.py:61-106: <<match_found, end_position>>
MatchAtPositionOf(pattern, stream, start_pos) ==
    IF start_pos < 0 \/ start_pos >= Len(stream)
    THEN <<FALSE, -1>>
    ELSE IF IsContiguous(pattern)
         THEN MatchContiguous(pattern, stream, start_pos)
         ELSE MatchSpaced(pattern, stream, 0, start_pos)

(***************************************************************************)
(* patterns.py: PatternMatcher.                                            *)
(***************************************************************************)
\* _extract_follow_digits as it would be if it began at the last matched digit
ExtractFollowDigitsFromLast(stream, end_pos, follow_digits) ==
    LET available == Min(follow_digits, Len(stream) - end_pos)
    IN  IF available <= 0 THEN <<>>
        ELSE SubSeq(stream, end_pos, end_pos + available - 1)

\* PatternMatcher._extract_follow_digits, patterns.py:333-358
ExtractFollowDigits(stream, end_pos, follow_digits) ==
    LET available == Min(follow_digits, Len(stream) - end_pos)
    IN  IF available <= 0 THEN <<>>
        ELSE SubSeq(stream, end_pos + 1, end_pos + available)

\* the loop "for pos in range(pos, stop)" of patterns.py:224-235 and 318-329,
\* results being the list so far
RECURSIVE Scan(_, _, _, _, _, _, _)
Scan(pattern, stream, pos, stop, max_positions, follow_digits, results) ==
    IF pos >= stop
    THEN results
    ELSE LET m == MatchAtPositionOf(pattern, stream, pos)
         IN  IF m[1]
             THEN LET found == Append(results,
                                  <<pos, ExtractFollowDigits(stream, m[2], follow_digits)>>)
                  IN  IF Len(found) >= max_positions
                      THEN found                                  \* break
                      ELSE Scan(pattern, stream, pos + 1, stop, max_positions,
                                follow_digits, found)
             ELSE Scan(pattern, stream, pos + 1, stop, max_positions, follow_digits,
                       results)

\* PatternMatcher._find_pattern_sequential, patterns.py:203-237
FindPatternSequentialOf(pattern, stream, max_positions, start_from, follow_digits) ==
    Scan(pattern, stream, start_from, Len(stream) - PatternLength(pattern) + 1,
         max_positions, follow_digits, <<>>)

\* PatternMatcher._search_chunk, patterns.py:295-331
SearchChunkOf(pattern, stream, start, end, max_positions, follow_digits) ==
    Scan(pattern, stream, start, end, max_positions, follow_digits, <<>>)

\* patterns.py:263-269: the chunks of _find_pattern_parallel
SearchChunkSize(pattern, stream, threads) ==
    Max(MinChunkSize, (Len(stream) - PatternLength(pattern) + 1) \div threads)

SearchChunks(pattern, stream, start_from, threads) ==
    LET stream_length == Len(stream) - PatternLength(pattern) + 1
        cs == SearchChunkSize(pattern, stream, threads)
        n == IF stream_length <= start_from THEN 0
             ELSE (stream_length - start_from + cs - 1) \div cs
    IN  [k \in 1..n |->
            LET i == start_from + (k - 1) * cs
            IN  <<Max(start_from, i), Min(i + cs, stream_length)>>]

\* results.sort(key=lambda x: x[0]), patterns.py:292: a stable sort by position
RECURSIVE InsertByPosition(_, _)
InsertByPosition(sorted, m) ==
    IF sorted = <<>> THEN <<m>>
    ELSE IF m[1] < Head(sorted)[1] THEN <<m>> \o sorted
    ELSE <<Head(sorted)>> \o InsertByPosition(Tail(sorted), m)

RECURSIVE SortByPosition(_)
SortByPosition(results) ==
    IF results = <<>> THEN <<>>
    ELSE InsertByPosition(SortByPosition(SubSeq(results, 1, Len(results) - 1)),
                          results[Len(results)])

\* results[:max_positions], patterns.py:293
Truncate(results, n) ==
    IF n >= 0 THEN SubSeq(results, 1, Min(n, Len(results)))
    ELSE SubSeq(results, 1, Max(0, Len(results) + n))

\* multiprocessing.cpu_count() of the machine
CpuCount == 2

\* length of the stream a key searches (keys.py:56 generate_stream: 10000)
KeyStreamLen == 4

\* patterns.py:188 "len(stream) > 10000": the same number as the default length of
\* PrivateKey.generate_stream
ParallelThreshold == KeyStreamLen

\* threads = self.threads or max(1, cpu_count() - 1), patterns.py:260
ThreadsOr(threads) ==
    IF threads = Nothing \/ threads = Some(0) THEN Max(1, CpuCount - 1) ELSE ValueOf(threads)

\* patterns.py:283-289 as a function of the chunk results in submission order
RECURSIVE CollectInOrder(_, _, _)
CollectInOrder(chunk_results, results, max_positions) ==
    IF chunk_results = <<>> THEN results
    ELSE LET extended == results \o Head(chunk_results)
         IN  IF Len(extended) >= max_positions
             THEN extended                                            \* break
             ELSE CollectInOrder(Tail(chunk_results), extended, max_positions)

\* PatternMatcher._find_pattern_parallel, patterns.py:239-293, as a function
FindPatternParallelOf(pattern, stream, max_positions, start_from, threads, follow_digits) ==
    LET chunks == SearchChunks(pattern, stream, start_from, ThreadsOr(threads))
        found == [k \in DOMAIN chunks |->
                     SearchChunkOf(pattern, stream, chunks[k][1], chunks[k][2],
                                   max_positions, follow_digits)]
    IN  Truncate(SortByPosition(CollectInOrder(found, <<>>, max_positions)), max_positions)

\* PatternMatcher.find_pattern, patterns.py:164-201
FindPatternOf(pattern, stream, max_positions, start_from, threads, follow_digits) ==
    SortByPosition(
        IF Len(stream) > ParallelThreshold /\ threads \notin {Some(0), Some(1)}
        THEN FindPatternParallelOf(pattern, stream, max_positions, start_from, threads,
                                   follow_digits)
        ELSE FindPatternSequentialOf(pattern, stream, max_positions, start_from,
                                     follow_digits))

\* the stream values and pattern digits of the searches: a stream of modulus 2
SearchDigits == {0, 1}

RECURSIVE SeqsOfLen(_, _)
\* the sequences over S of length n
SeqsOfLen(S, n) ==
    IF n = 0 THEN {<<>>}
    ELSE {Append(q, x) : q \in SeqsOfLen(S, n - 1), x \in S}

SearchStreams == UNION {SeqsOfLen(SearchDigits, n) : n \in 1..MaxSearchLen}

\* the Patterns the constructor accepts (patterns.py:36): spacing absent, or one
\* gap shorter than digits
Patterns ==
    UNION {[digits : SeqsOfLen(SearchDigits, n),
            spacing : {Nothing} \cup {Some(g) : g \in SeqsOfLen(0..MaxSpacing, n - 1)}]
           : n \in 1..MaxPatternLen}

\* a longer stream holding 3 at position 2, 1 at 5, 9 at 6..8 and 4 at 9, and
\* two patterns with spacing to look for in it
PlantedStream == <<0, 0, 3, 5, 5, 1, 9, 9, 9, 4, 7, 7>>
PlantedPattern == [digits |-> <<3, 1, 9>>, spacing |-> Some(<<2, 3>>)]
NearerPattern == [digits |-> <<3, 1, 9>>, spacing |-> Some(<<2, 2>>)]

SearchInputs ==
    [stream : SearchStreams, pattern : Patterns, follow_digits : {0, MaxFollow}]
    \cup [stream : {PlantedStream}, pattern : {PlantedPattern, NearerPattern},
          follow_digits : {0, MaxFollow}]

SearchInit ==
    /\ StoreIdle
    /\ SynIdle
    /\ KeysIdle
    /\ AuxIdle
    /\ pat_in \in SearchInputs
    /\ match_obs = Nothing
    /\ search_args = Nothing
    /\ seq_result = Nothing
    /\ par_futures = <<>>
    /\ par_next = 0
    /\ par_results = <<>>
    /\ par_result = Nothing

\* a call of Pattern.match_at_position(stream, start_pos)
MatchAtPosition(start_pos) ==
    /\ search_args = Nothing
    /\ match_obs = Nothing
    /\ find_obs = Nothing
    /\ match_obs' = Some([start_pos |-> start_pos,
                          ret |-> MatchAtPositionOf(pat_in.pattern, pat_in.stream, start_pos)])
    /\ UNCHANGED <<pat_in, search_args, seq_result, par_futures, par_next, par_results,
                   par_result>>
    /\ UNCHANGED notpat

\* a call of PatternMatcher._find_pattern_sequential
FindPatternSequential(max_positions, start_from) ==
    /\ search_args = Nothing
    /\ match_obs = Nothing
    /\ find_obs = Nothing
    /\ search_args' = Some([max_positions |-> max_positions, start_from |-> start_from,
                            threads |-> 0])
    /\ seq_result' = Some(FindPatternSequentialOf(pat_in.pattern, pat_in.stream,
                              max_positions, start_from, pat_in.follow_digits))
    /\ UNCHANGED <<pat_in, match_obs, par_futures, par_next, par_results, par_result>>
    /\ UNCHANGED notpat

SearchArgs == ValueOf(search_args)

\* _find_pattern_parallel with the same arguments, patterns.py:258-280: the chunks
\* are submitted and the loop over the futures begins
SubmitSearch(threads) ==
    /\ search_args # Nothing
    /\ SearchArgs.threads = 0
    /\ search_args' = Some([SearchArgs EXCEPT !.threads = threads])
    /\ par_futures' = [k \in DOMAIN SearchChunks(pat_in.pattern, pat_in.stream,
                                                 SearchArgs.start_from, threads)
                       |-> Nothing]
    /\ par_next' = 1
    /\ par_results' = <<>>
    /\ UNCHANGED <<pat_in, match_obs, seq_result, par_result>>
    /\ UNCHANGED notpat

\* a pool thread runs _search_chunk on chunk k
SearchChunk(k) ==
    /\ k \in DOMAIN par_futures
    /\ par_futures[k] = Nothing
    /\ LET c == SearchChunks(pat_in.pattern, pat_in.stream, SearchArgs.start_from,
                             SearchArgs.threads)[k]
       IN  par_futures' = [par_futures EXCEPT ![k] =
               Some(SearchChunkOf(pat_in.pattern, pat_in.stream, c[1], c[2],
                                  SearchArgs.max_positions, pat_in.follow_digits))]
    /\ UNCHANGED <<pat_in, match_obs, search_args, seq_result, par_next, par_results,
                   par_result>>
    /\ UNCHANGED notpat

\* a future whose result the loop below has taken
Taken == Some(<<<<-1, <<>>>>>>)

\* the loop as it would be over as_completed(futures): it takes the result of any
\* finished future, in the order the workers finish, and breaks as the real loop
CollectFutureAsCompleted ==
    /\ par_next \in DOMAIN par_futures
    /\ \E k \in DOMAIN par_futures :
         /\ par_futures[k] # Nothing
         /\ par_futures[k] # Taken
         /\ LET extended == par_results \o ValueOf(par_futures[k])
                left == {j \in DOMAIN par_futures : j # k /\ par_futures[j] # Taken}
            IN  /\ par_results' = extended
                /\ par_futures' = [par_futures EXCEPT ![k] = Taken]
                /\ par_next' = IF Len(extended) >= SearchArgs.max_positions \/ left = {}
                               THEN Len(par_futures) + 1
                               ELSE par_next
    /\ UNCHANGED <<pat_in, match_obs, search_args, seq_result, par_result>>
    /\ UNCHANGED notpat

\* the loop over the futures as it would be if it went on waiting for matches
\* after the last future while fewer than max_positions were found
CollectFutureUntilEnough ==
    /\ par_next \in DOMAIN par_futures
    /\ par_futures[par_next] # Nothing
    /\ LET extended == par_results \o ValueOf(par_futures[par_next])
       IN  /\ Len(extended) >= SearchArgs.max_positions \/ par_next < Len(par_futures)
           /\ par_results' = extended
           /\ par_next' = IF Len(extended) >= SearchArgs.max_positions
                          THEN Len(par_futures) + 1
                          ELSE par_next + 1
    /\ UNCHANGED <<pat_in, match_obs, search_args, seq_result, par_futures, par_result>>
    /\ UNCHANGED notpat

\* patterns.py:283-289: one turn of "for future in futures": future.result()
\* returns once that future is done; the loop ends after the last future or on
\* the break
CollectFuture ==
    /\ par_next \in DOMAIN par_futures
    /\ par_futures[par_next] # Nothing
    /\ LET extended == par_results \o ValueOf(par_futures[par_next])
       IN  /\ par_results' = extended
           /\ par_next' = IF Len(extended) >= SearchArgs.max_positions
                          THEN Len(par_futures) + 1                  \* break
                          ELSE par_next + 1
    /\ UNCHANGED <<pat_in, match_obs, search_args, seq_result, par_futures, par_result>>
    /\ UNCHANGED notpat

\* patterns.py:273, 291-293: the pool is shut down, which waits for every task
\* submitted, and the results are sorted and cut
ReturnParallel ==
    /\ par_next = Len(par_futures) + 1
    /\ par_result = Nothing
    /\ \A k \in DOMAIN par_futures : par_futures[k] # Nothing
    /\ par_result' = Some(Truncate(SortByPosition(par_results), SearchArgs.max_positions))
    /\ UNCHANGED <<pat_in, match_obs, search_args, seq_result, par_futures, par_next,
                   par_results>>
    /\ UNCHANGED notpat

\* threads of the PatternMatcher: None, or a number
MatcherThreads == {Nothing, Some(1), Some(MaxSearchThreads)}

\* a call of PatternMatcher(threads, follow_digits).find_pattern(pattern, stream,
\* max_positions, start_from)
FindPattern(max_positions, start_from, threads) ==
    /\ search_args = Nothing
    /\ match_obs = Nothing
    /\ find_obs = Nothing
    /\ find_obs' = Some([max_positions |-> max_positions, start_from |-> start_from,
                         threads |-> threads,
                         ret |-> FindPatternOf(pat_in.pattern, pat_in.stream, max_positions,
                                               start_from, threads, pat_in.follow_digits)])
    /\ UNCHANGED <<patvars, digvars, synvars, keyvars, gen_obs, args, rets>>

SearchNext ==
    \/ \E p \in -1..MaxSearchLen : MatchAtPosition(p)
    \/ \E k \in {0, 1, MaxPositions}, f \in {0, MaxStartFrom}, t \in MatcherThreads :
           FindPattern(k, f, t)
    \/ \E k \in 0..MaxPositions, f \in {0, MaxStartFrom} : FindPatternSequential(k, f)
    \/ \E t \in 1..MaxSearchThreads : SubmitSearch(t)
    \/ \E k \in 1..MaxSearchLen : SearchChunk(k)
    \/ CollectFuture
    \/ ReturnParallel

SpecSearch == SearchInit /\ [][SearchNext]_vars

\* the pool runs every task submitted to it, and the thread that called
\* _find_pattern_parallel goes on through its loop and returns
SearchFairInit ==
    /\ SearchInit
    /\ Len(pat_in.stream) = MaxSearchLen
    /\ pat_in.follow_digits = 0

SpecSearchFair ==
    /\ SearchFairInit
    /\ [][SearchNext]_vars
    /\ WF_vars(\E k \in 1..MaxSearchLen : SearchChunk(k))
    /\ WF_vars(CollectFuture)
    /\ WF_vars(ReturnParallel)

(***************************************************************************)
(* patterns.py: PatternMatcher.hash_follow_sequences.                      *)
(***************************************************************************)
\* the character '|' of patterns.py:405 (digit characters are 0..9)
Bar == 124

\* str(d), patterns.py:405: the decimal digits of d
RECURSIVE Str(_)
Str(d) == IF d < 10 THEN <<d>> ELSE Str(d \div 10) \o <<d % 10>>

\* "".join(str(d) for d in seq)
RECURSIVE JoinStr(_)
JoinStr(seq) == IF seq = <<>> THEN <<>> ELSE Str(Head(seq)) \o JoinStr(Tail(seq))

\* seq_str of patterns.py:403-405
RECURSIVE SeqStr(_)
SeqStr(follow_sequences) ==
    IF follow_sequences = <<>> THEN <<>>
    ELSE JoinStr(Head(follow_sequences)) \o <<Bar>> \o SeqStr(Tail(follow_sequences))

\* hashlib.sha256: the digest stands for the text hashed (no collisions)
Sha256(text) == [sha256 |-> text]

\* PatternMatcher.hash_follow_sequences, patterns.py:392-408
HashFollowSequences(follow_sequences) == Sha256(SeqStr(follow_sequences))

\* the follow sequences hashed below hold values below HashModulus
HashModulus == 11
HashSeqLen == 2
HashSeqs == 2

FollowValues == {0, 1, HashModulus - 1}
FollowLists == SeqsUpTo(SeqsUpTo(FollowValues, HashSeqLen), HashSeqs)

HashInit ==
    /\ StoreIdle
    /\ SynIdle
    /\ PatIdle
    /\ KeysIdle
    /\ find_obs = Nothing
    /\ gen_obs = {}
    /\ args \in [s1 : FollowLists, s2 : FollowLists]
    /\ rets = [h1 |-> Nothing, h2 |-> Nothing]

\* hash_follow_sequences(S1)
HashFirst ==
    /\ rets.h1 = Nothing
    /\ rets' = [rets EXCEPT !.h1 = Some(HashFollowSequences(args.s1))]
    /\ UNCHANGED <<digvars, synvars, patvars, keyvars, find_obs, gen_obs, args>>

\* hash_follow_sequences(S2)
HashSecond ==
    /\ rets.h2 = Nothing
    /\ rets' = [rets EXCEPT !.h2 = Some(HashFollowSequences(args.s2))]
    /\ UNCHANGED <<digvars, synvars, patvars, keyvars, find_obs, gen_obs, args>>

HashNext == HashFirst \/ HashSecond

SpecHash == HashInit /\ [][HashNext]_vars

(***************************************************************************)
(* keys.py: PublicKey.derive_encryption_key with its key_bytes argument.   *)
(* Texts are sequences of characters; a digest is DigestLen bytes, each    *)
(* standing for its place in the digest of the text hashed.                *)
(***************************************************************************)
\* len(hashlib.sha256(...).digest()) (32 there)
DigestLen == 2

\* hashlib.sha256(material).digest()
Digest(material) == [i \in 1..DigestLen |-> [sha256 |-> material, byte |-> i]]

\* b[:n] of Python, for any integer n
SliceTo(b, n) ==
    IF n >= 0 THEN SubSeq(b, 1, Min(n, Len(b)))
    ELSE SubSeq(b, 1, Max(0, Len(b) + n))

\* the loop of keys.py:341-343 as it would be if it hashed the last digest alone
RECURSIVE ExtendKeyWithoutMaterial(_, _, _, _)
ExtendKeyWithoutMaterial(result, h, material, key_bytes) ==
    IF Len(result) < key_bytes
    THEN LET next == Digest(h)
         IN  ExtendKeyWithoutMaterial(result \o next, next, material, key_bytes)
    ELSE result

\* keys.py:341-343: "while len(result) < key_bytes: h = sha256(h + material)"
RECURSIVE ExtendKey(_, _, _, _)
ExtendKey(result, h, material, key_bytes) ==
    IF Len(result) < key_bytes
    THEN LET next == Digest(h \o material)
         IN  ExtendKey(result \o next, next, material, key_bytes)
    ELSE result

\* PublicKey.derive_encryption_key, keys.py:322-347
DeriveEncryptionKeyBytes(verification_token, salt, key_bytes) ==
    LET material == verification_token \o salt
        h == Digest(material)
    IN  IF key_bytes > Len(h)
        THEN SliceTo(ExtendKey(h, h, material, key_bytes), key_bytes)
        ELSE SliceTo(h, key_bytes)

MaxKeyBytes == 5

TokenTexts == {<<>>, <<1>>, <<1, 2>>}
SaltTexts == {<<>>, <<2>>, <<3>>}

DeriveInit ==
    /\ StoreIdle
    /\ SynIdle
    /\ PatIdle
    /\ KeysIdle
    /\ find_obs = Nothing
    /\ gen_obs = {}
    /\ args \in [verification_token : TokenTexts, salt : SaltTexts]
    /\ rets = {}

\* a call of derive_encryption_key(salt, key_bytes) on a PublicKey with the token
DeriveKey(key_bytes) ==
    /\ \A r \in rets : r.key_bytes # key_bytes
    /\ rets' = rets \cup
          {[key_bytes |-> key_bytes,
            ret |-> DeriveEncryptionKeyBytes(args.verification_token, args.salt,
                                             key_bytes)]}
    /\ UNCHANGED <<digvars, synvars, patvars, keyvars, find_obs, gen_obs, args>>

DeriveNext == \E key_bytes \in 1..MaxKeyBytes : DeriveKey(key_bytes)

SpecDerive == DeriveInit /\ [][DeriveNext]_vars

(***************************************************************************)
(* streams.py: the accumulation loops of _generate_stream_chunk, one turn  *)
(* per offset.  The caller's offset lists repeat one pi offset and then    *)
(* one e offset; args is the call, rets the uint8 array "result" and the   *)
(* number of offsets of each list added so far.                            *)
(***************************************************************************)
\* the moduli of the accumulation: small ones and the largest a uint8 holds
ChunkModuli == {2, 10, 250, 255}

\* most offsets one call passes in its two lists together
MaxRepeats == 32

AccumulateInit ==
    /\ StoreIdle
    /\ SynIdle
    /\ PatIdle
    /\ KeysIdle
    /\ find_obs = Nothing
    /\ gen_obs = {}
    /\ args \in [start : {0, 1}, length : {1, MaxLen},
                 pi_offset : 0..(StoredDigits - 1), e_offset : 0..(StoredDigits - 1),
                 modulus : ChunkModuli]
    /\ rets = [result |-> [j \in 1..args.length |-> 0], pi_done |-> 0, e_done |-> 0]

\* digit_store.get_pi_digits(adjusted_offset, chunk_length), streams.py:100-102
PiChunk == ExtractDigits(pi_text, args.pi_offset + args.start, args.length)
\* digit_store.get_e_digits(adjusted_offset, chunk_length), streams.py:109-111
EChunk == ExtractDigits(e_text, args.e_offset + args.start, args.length)

\* streams.py:98-104: one turn of "for offset in pi_offsets"
AddPiChunk ==
    /\ rets.e_done = 0
    /\ rets.pi_done + rets.e_done < MaxRepeats
    /\ rets' = [rets EXCEPT !.result = AddChunk(@, PiChunk, args.modulus),
                            !.pi_done = @ + 1]
    /\ UNCHANGED <<digvars, synvars, patvars, keyvars, find_obs, gen_obs, args>>

\* streams.py:107-113: one turn of "for offset in e_offsets"
AddEChunk ==
    /\ rets.pi_done + rets.e_done < MaxRepeats
    /\ rets' = [rets EXCEPT !.result = AddChunk(@, EChunk, args.modulus),
                            !.e_done = @ + 1]
    /\ UNCHANGED <<digvars, synvars, patvars, keyvars, find_obs, gen_obs, args>>

AccumulateNext == AddPiChunk \/ AddEChunk

SpecAccumulate == AccumulateInit /\ [][AccumulateNext]_vars

(***************************************************************************)
(* streams.py: offsets from seeds, the StreamGenerator singleton.          *)
(***************************************************************************)
\* np.random.RandomState takes the seeds below 2^32 and raises ValueError for
\* larger ones: SeedLimit stands for 2^32
SeedLimit == 2

\* max_offset of streams.py:169 (10^9 there)
MaxOffset == 5

\* rng.randint(0, max_offset, size=count)[i - 1] for RandomState(seed): a fixed table
RandInt(seed, i) == ((seed + 1) * (i + 1)) % MaxOffset

\* _generate_offsets_from_seed, streams.py:154-172
GenerateOffsetsFromSeed(seed, count) ==
    IF seed < 0 \/ seed >= SeedLimit
    THEN Raise(ValueError)
    ELSE Return([i \in 1..count |-> RandInt(seed, i)])

\* secrets.randbits(64), keys.py:247-248: the seeds below 2^64 = (2^32)^2
KeySeeds == 0..(SeedLimit * SeedLimit - 1)

MaxCount == 2

OffsetsInit ==
    /\ StoreIdle
    /\ SynIdle
    /\ PatIdle
    /\ KeysIdle
    /\ find_obs = Nothing
    /\ gen_obs = {}
    /\ args \in [pi_seed : KeySeeds, e_seed : KeySeeds, count : 0..MaxCount]
    /\ rets = [pi_offsets |-> Nothing, e_offsets |-> Nothing]

\* _generate_offsets_from_seed(pi_seed, count)
PiOffsetsFromSeed ==
    /\ rets.pi_offsets = Nothing
    /\ rets' = [rets EXCEPT !.pi_offsets =
                    Some(GenerateOffsetsFromSeed(args.pi_seed, args.count))]
    /\ UNCHANGED <<digvars, synvars, patvars, keyvars, find_obs, gen_obs, args>>

\* _generate_offsets_from_seed(e_seed, count)
EOffsetsFromSeed ==
    /\ rets.e_offsets = Nothing
    /\ rets' = [rets EXCEPT !.e_offsets =
                    Some(GenerateOffsetsFromSeed(args.e_seed, args.count))]
    /\ UNCHANGED <<digvars, synvars, patvars, keyvars, find_obs, gen_obs, args>>

OffsetsNext == PiOffsetsFromSeed \/ EOffsetsFromSeed

SpecOffsets == OffsetsInit /\ [][OffsetsNext]_vars

\* streams.py:44-45: "if threads is None: threads = max(1, cpu_count() - 1)"
StreamThreads(threads) ==
    IF threads = Nothing THEN Max(1, CpuCount - 1) ELSE ValueOf(threads)

\* generate_synthetic_stream, streams.py:18-69, as a function of its arguments
GenerateSyntheticStreamOf(pi_offsets, e_offsets, length, modulus, threads) ==
    LET chunks == Chunks(length, StreamThreads(threads))
    IN  Concatenate([k \in DOMAIN chunks |->
            GenerateStreamChunk(chunks[k][1], chunks[k][2], pi_offsets, e_offsets,
                                modulus)])

\* StreamGenerator.__init__ defaults, streams.py:197-219
DefaultModulus == 10
NewStreamGenerator ==
    [pi_offsets |-> <<>>, e_offsets |-> <<>>, modulus |-> DefaultModulus,
     threads |-> Nothing, cache |-> EmptyCache]

\* get_stream_generator, streams.py:312-322
GetStreamGenerator(gen) == IF gen = Nothing THEN NewStreamGenerator ELSE ValueOf(gen)

\* StreamGenerator.set_parameters(pi_offsets=..., e_offsets=...), streams.py:237-247;
\* modulus and threads are None in the call of from_seeds
SetParameters(g, pi_offsets, e_offsets) ==
    [g EXCEPT !.pi_offsets = pi_offsets, !.e_offsets = e_offsets, !.cache = EmptyCache]

\* "if len(self._cache) < 10", streams.py:299
StreamCacheLimit == 10

\* StreamGenerator.generate, streams.py:268-302: <<what it returns, the generator after>>
Generate(g, length) ==
    IF g.pi_offsets = <<>> /\ g.e_offsets = <<>>
    THEN <<Raise(ValueError), g>>
    ELSE IF length \in DOMAIN g.cache
         THEN <<Return(g.cache[length]), g>>
         ELSE Only({<<Return(stream),
                      IF Cardinality(DOMAIN g.cache) < StreamCacheLimit
                      THEN [g EXCEPT !.cache = (length :> stream) @@ g.cache]
                      ELSE g>>
                    : stream \in {GenerateSyntheticStreamOf(g.pi_offsets, g.e_offsets,
                                                            length, g.modulus, g.threads)}})

\* get_synthetic_stream, streams.py:325-349 with from_seeds, streams.py:249-266:
\* <<what it returns, the singleton after>>.  The modulus argument is not passed on.
GetSyntheticStream(gen, pi_seed, e_seed, length, num_offsets, modulus) ==
    LET g == GetStreamGenerator(gen)
        pi_offsets == GenerateOffsetsFromSeed(pi_seed, num_offsets)
        e_offsets == GenerateOffsetsFromSeed(e_seed, num_offsets)
    IN  IF pi_offsets.raised # None THEN <<pi_offsets, g>>
        ELSE IF e_offsets.raised # None THEN <<e_offsets, g>>
        ELSE Generate(SetParameters(g, pi_offsets.value, e_offsets.value), length)

\* set_parameters as it would be if it left the cache alone
SetAllParametersKeepingCache(g, pi_offsets, e_offsets, modulus, threads) ==
    [pi_offsets |-> IF pi_offsets # Nothing THEN ValueOf(pi_offsets) ELSE g.pi_offsets,
     e_offsets |-> IF e_offsets # Nothing THEN ValueOf(e_offsets) ELSE g.e_offsets,
     modulus |-> IF modulus # Nothing THEN ValueOf(modulus) ELSE g.modulus,
     threads |-> IF threads # Nothing THEN threads ELSE g.threads,
     cache |-> g.cache]

\* StreamGenerator.set_parameters, streams.py:221-247, each argument None or given
SetAllParameters(g, pi_offsets, e_offsets, modulus, threads) ==
    [pi_offsets |-> IF pi_offsets # Nothing THEN ValueOf(pi_offsets) ELSE g.pi_offsets,
     e_offsets |-> IF e_offsets # Nothing THEN ValueOf(e_offsets) ELSE g.e_offsets,
     modulus |-> IF modulus # Nothing THEN ValueOf(modulus) ELSE g.modulus,
     threads |-> IF threads # Nothing THEN threads ELSE g.threads,
     cache |-> EmptyCache]

\* StreamGenerator.clear_cache, streams.py:304-306
ClearCacheOf(g) == [g EXCEPT !.cache = EmptyCache]

\* num_offsets of the keys (100 by default)
NumOffsets == 1

StreamLengths == {1, MaxStreamLen}

GeneratorInit ==
    /\ StoreIdle
    /\ SynIdle
    /\ PatIdle
    /\ keys = <<>>
    /\ generator = Nothing
    /\ public_key = Nothing
    /\ envelope = Nothing
    /\ call = Nothing
    /\ find_obs = Nothing
    /\ gen_obs = {}
    /\ args = 0
    /\ rets = Nothing

\* a call of get_synthetic_stream, streams.py:325-349
CallGetSyntheticStream(pi_seed, e_seed, length, num_offsets, modulus) ==
    /\ args < MaxCalls
    /\ args' = args + 1
    /\ \E r \in {GetSyntheticStream(generator, pi_seed, e_seed, length, num_offsets,
                                     modulus)} :
           /\ generator' = Some(r[2])
           /\ gen_obs' = gen_obs \cup
                  {[pi_seed |-> pi_seed, e_seed |-> e_seed, length |-> length,
                    num_offsets |-> num_offsets, modulus |-> modulus, ret |-> r[1]]}
    /\ UNCHANGED <<digvars, synvars, patvars, keys, public_key, envelope, call,
                   find_obs, rets>>

\* a call of get_stream_generator().set_parameters(modulus=..., threads=...)
CallSetParameters(modulus, threads) ==
    /\ args < MaxCalls
    /\ args' = args + 1
    /\ generator' = Some(SetAllParameters(GetStreamGenerator(generator), Nothing, Nothing,
                                          modulus, threads))
    /\ UNCHANGED <<digvars, synvars, patvars, keys, public_key, envelope, call,
                   find_obs, gen_obs, rets>>

\* a call of get_stream_generator().clear_cache()
CallClearCache ==
    /\ args < MaxCalls
    /\ args' = args + 1
    /\ generator' = Some(ClearCacheOf(GetStreamGenerator(generator)))
    /\ UNCHANGED <<digvars, synvars, patvars, keys, public_key, envelope, call,
                   find_obs, gen_obs, rets>>

GeneratorNext ==
    \/ \E pi_seed \in {0, 1}, e_seed \in {0, 1}, length \in StreamLengths,
          modulus \in Moduli :
           CallGetSyntheticStream(pi_seed, e_seed, length, NumOffsets, modulus)
    \/ \E modulus \in {Nothing} \cup {Some(m) : m \in Moduli},
          threads \in {Nothing, Some(MaxThreads)} :
           CallSetParameters(modulus, threads)
    \/ CallClearCache

SpecGenerator == GeneratorInit /\ [][GeneratorNext]_vars

(***************************************************************************)
(* streams.py: the arrays of a StreamGenerator as objects.  The cache maps *)
(* a length to the id of the array it holds; the heap is kept in args, the *)
(* ids the caller was returned in rets, the last generate call in call.    *)
(***************************************************************************)
\* generate_synthetic_stream with the generator's fields, streams.py:284-290
SynthesizeWith(g, length) ==
    GenerateSyntheticStreamOf(g.pi_offsets, g.e_offsets, length, g.modulus, g.threads)

\* StreamGenerator.generate over array objects, streams.py:268-302: what the call
\* returns, the id returned, the generator and the heap after it
GenerateShared(g, heap, length) ==
    IF g.pi_offsets = <<>> /\ g.e_offsets = <<>>
    THEN [ret |-> Raise(ValueError), id |-> Nothing, g |-> g, heap |-> heap]
    ELSE IF length \in DOMAIN g.cache
    THEN LET copied == CopyArray(heap, g.cache[length])
         IN  [ret |-> Return(copied.heap[copied.id]), id |-> Some(copied.id),
              g |-> g, heap |-> copied.heap]
    ELSE LET stream == NewArray(heap, SynthesizeWith(g, length))
             stored == CopyArray(stream.heap, stream.id)
         IN  IF Cardinality(DOMAIN g.cache) < StreamCacheLimit
             THEN [ret |-> Return(stream.heap[stream.id]), id |-> Some(stream.id),
                   g |-> [g EXCEPT !.cache = (length :> stored.id) @@ g.cache],
                   heap |-> stored.heap]
             ELSE [ret |-> Return(stream.heap[stream.id]), id |-> Some(stream.id),
                   g |-> g, heap |-> stream.heap]

\* a generator on which generate(1), ..., generate(n) were called after its
\* parameters were set: the cache holds the arrays 1..n of the heap
GeneratorAfter(pi_offsets, modulus, n) ==
    [pi_offsets |-> pi_offsets, e_offsets |-> <<>>, modulus |-> modulus,
     threads |-> Nothing, cache |-> [length \in 1..n |-> length]]

\* the lengths the caller asks for: one, the length that fills the cache, the
\* length after it
SharedLengths == {1, StreamCacheLimit, StreamCacheLimit + 1}

StreamCacheInit ==
    /\ StoreIdle
    /\ SynIdle
    /\ PatIdle
    /\ keys = <<>>
    /\ public_key = Nothing
    /\ envelope = Nothing
    /\ call = Nothing
    /\ find_obs = Nothing
    /\ gen_obs = {}
    /\ rets = {}
    /\ \E offset \in {0}, modulus \in Moduli, n \in {0, StreamCacheLimit - 1} :
           \E g \in {GeneratorAfter(<<offset>>, modulus, n)} :
               /\ generator = Some(g)
               /\ args = [length \in 1..n |-> SynthesizeWith(g, length)]

\* most arrays the caller of generate keeps
MaxHeld == 2

\* a call of generate(length); the caller keeps the array
CallGenerateShared(length) ==
    /\ Cardinality(rets) < MaxHeld
    /\ \E r \in {GenerateShared(ValueOf(generator), args, length)} :
           /\ generator' = Some(r.g)
           /\ args' = r.heap
           /\ rets' = Held(rets, r)
           /\ call' = Some([length |-> length, ret |-> r.ret, id |-> r.id,
                            g |-> ValueOf(generator)])
    /\ UNCHANGED <<digvars, synvars, patvars, keys, public_key, envelope,
                   find_obs, gen_obs>>

\* a call of set_parameters(modulus=...), or with no argument
CallSetParametersShared(modulus) ==
    /\ generator' = Some(SetAllParameters(ValueOf(generator), Nothing, Nothing,
                                          modulus, Nothing))
    /\ UNCHANGED <<digvars, synvars, patvars, keys, public_key, envelope, call,
                   auxvars>>

\* a call of from_seeds(pi_seed, e_seed, num_offsets), streams.py:249-266
CallFromSeeds(pi_seed, e_seed, num_offsets) ==
    /\ generator' = Some(SetParameters(ValueOf(generator),
                             GenerateOffsetsFromSeed(pi_seed, num_offsets).value,
                             GenerateOffsetsFromSeed(e_seed, num_offsets).value))
    /\ UNCHANGED <<digvars, synvars, patvars, keys, public_key, envelope, call,
                   auxvars>>

\* a call of clear_cache()
CallClearCacheShared ==
    /\ generator' = Some(ClearCacheOf(ValueOf(generator)))
    /\ UNCHANGED <<digvars, synvars, patvars, keys, public_key, envelope, call,
                   auxvars>>

StreamCacheNext ==
    \/ \E length \in SharedLengths : CallGenerateShared(length)
    \/ \E modulus \in {Nothing} \cup {Some(m) : m \in Moduli} :
           CallSetParametersShared(modulus)
    \/ CallFromSeeds(0, 0, NumOffsets)
    \/ CallClearCacheShared
    \/ \E id \in 1..(StreamCacheLimit + 2 * MaxHeld) : MutateReturned(id)

SpecStreamCache == StreamCacheInit /\ [][StreamCacheNext]_vars

(***************************************************************************)
(* keys.py: PrivateKey, PublicKey, verify_key_pair.  A PrivateKey object   *)
(* is its six fields and matches, the cache _matches.  The operations on   *)
(* a key return [ret, key, generator]: what the call returns, the key      *)
(* object after it and the singleton after it.                             *)
(***************************************************************************)
\* PrivateKey.__init__, keys.py:26-54
NewPrivateKey(pi_seed, e_seed, pattern, num_offsets, modulus, follow_digits) ==
    [pi_seed |-> pi_seed, e_seed |-> e_seed, pattern |-> pattern,
     num_offsets |-> num_offsets, modulus |-> modulus, follow_digits |-> follow_digits,
     matches |-> Nothing]

\* PrivateKey.to_dict, keys.py:116-130 (Pattern.to_dict, patterns.py:108-118)
ToDict(key) ==
    [pi_seed |-> key.pi_seed, e_seed |-> key.e_seed,
     pattern |-> [digits |-> key.pattern.digits, spacing |-> key.pattern.spacing],
     num_offsets |-> key.num_offsets, modulus |-> key.modulus,
     follow_digits |-> key.follow_digits]

\* PrivateKey.from_dict, keys.py:170-190 (Pattern.from_dict, patterns.py:120-134)
FromDict(data) ==
    NewPrivateKey(data.pi_seed, data.e_seed,
                  [digits |-> data.pattern.digits, spacing |-> data.pattern.spacing],
                  data.num_offsets, data.modulus, data.follow_digits)

\* PrivateKey.generate_stream, keys.py:56-72: <<what it returns, the singleton after>>
GenerateStream(key, gen, length) ==
    GetSyntheticStream(gen, key.pi_seed, key.e_seed, length, key.num_offsets, key.modulus)

\* PrivateKey.find_pattern_matches, keys.py:74-101
FindPatternMatchesOf(key, gen, max_positions) ==
    IF key.matches # Nothing
    THEN [ret |-> Return(Truncate(ValueOf(key.matches), max_positions)),
          key |-> key, generator |-> gen]
    ELSE Only({IF s[1].raised # None
               THEN [ret |-> s[1], key |-> key, generator |-> Some(s[2])]
               ELSE Only({[ret |-> Return(matches),
                           key |-> [key EXCEPT !.matches = Some(matches)],
                           generator |-> Some(s[2])]
                          : matches \in {FindPatternOf(key.pattern, s[1].value,
                                                       max_positions, 0, Nothing,
                                                       key.follow_digits)}})
               : s \in {GenerateStream(key, gen, KeyStreamLen)}})

\* [seq for _, seq in matches], keys.py:114, encryption.py:196
FollowSequences(matches) == [j \in DOMAIN matches |-> matches[j][2]]

\* PrivateKey.get_follow_sequences, keys.py:103-114
GetFollowSequencesOf(key, gen, max_positions) ==
    Only({IF r.ret.raised # None THEN r
          ELSE [r EXCEPT !.ret = Return(FollowSequences(r.ret.value))]
          : r \in {FindPatternMatchesOf(key, gen, max_positions)}})

\* max_positions of PublicKey.__init__ when the caller gives none, keys.py:275
DefaultMaxPositions == 5
\* follow_digits of PublicKey.__init__ when the caller gives none, keys.py:276
DefaultFollowDigits == 25

\* PublicKey.__init__, keys.py:272-288
NewPublicKey(verification_token, max_positions, follow_digits) ==
    [verification_token |-> verification_token, max_positions |-> max_positions,
     follow_digits |-> follow_digits]

\* get_public_key as it would be if it refused a key without a match
GetPublicKeyRefusingNoMatch(key, gen, max_positions) ==
    Only({IF r.ret.raised # None THEN r
          ELSE IF r.ret.value = <<>> THEN [r EXCEPT !.ret = Raise(ValueError)]
          ELSE [r EXCEPT !.ret = Return(NewPublicKey(HashFollowSequences(r.ret.value),
                                                    max_positions, key.follow_digits))]
          : r \in {GetFollowSequencesOf(key, gen, max_positions)}})

\* PrivateKey.get_public_key, keys.py:151-168
GetPublicKeyOf(key, gen, max_positions) ==
    Only({IF r.ret.raised # None THEN r
          ELSE [r EXCEPT !.ret = Return(NewPublicKey(HashFollowSequences(r.ret.value),
                                                    max_positions, key.follow_digits))]
          : r \in {GetFollowSequencesOf(key, gen, max_positions)}})

\* verify_key_pair, keys.py:397-416
VerifyKeyPairOf(key, gen, pub) ==
    Only({IF r.ret.raised # None THEN r
          ELSE [r EXCEPT !.ret =
                   Return(HashFollowSequences(r.ret.value) = pub.verification_token)]
          : r \in {GetFollowSequencesOf(key, gen, pub.max_positions)}})

\* derive_encryption_key as it would be if every field of the public key entered
\* the key material
DeriveEncryptionKeyFromAllFields(pub, salt) ==
    Sha256([verification_token |-> pub.verification_token, salt |-> salt,
            max_positions |-> pub.max_positions, follow_digits |-> pub.follow_digits])

\* PublicKey.derive_encryption_key(salt) with key_bytes = 32, keys.py:322-347: the
\* digest of the token's 64 hex characters followed by the salt, whole
DeriveEncryptionKey(pub, salt) ==
    Sha256([verification_token |-> pub.verification_token, salt |-> salt])

(***************************************************************************)
(* encryption.py: encrypt_data, decrypt_data.  The cipher is the           *)
(* cryptography package's AES-CBC with PKCS7 padding: a ciphertext stands  *)
(* for the key, the IV and the data it was made from.                      *)
(***************************************************************************)
\* encryption.py:155-162
AesCbcEncrypt(key, iv, data) == [key |-> key, iv |-> iv, data |-> data]

\* encryption.py:205-212: with another key or IV the unpadder rejects the padding
AesCbcDecrypt(key, iv, ciphertext) ==
    IF key = ciphertext.key /\ iv = ciphertext.iv
    THEN Return(ciphertext.data)
    ELSE Raise(ValueError)

\* encrypt_data, encryption.py:129-170; salt and iv are the values drawn at :147, :153
EncryptDataOf(data, pub, salt, iv) ==
    [ciphertext |-> AesCbcEncrypt(DeriveEncryptionKey(pub, salt), iv, data),
     iv |-> iv, salt |-> salt, verification_token |-> pub.verification_token]

\* decrypt_data as it would be if it compared the tokens after the cipher step
DecryptDataCheckingLast(encrypted_data, key, gen) ==
    LET pub == NewPublicKey(encrypted_data.verification_token, DefaultMaxPositions,
                            DefaultFollowDigits)
    IN  Only({
          IF r.ret.raised # None
          THEN [ret |-> r.ret, key |-> r.key, generator |-> r.generator,
                token |-> Nothing, derived |-> FALSE, ciphered |-> FALSE]
          ELSE LET token == HashFollowSequences(FollowSequences(r.ret.value))
                   data == AesCbcDecrypt(DeriveEncryptionKey(pub, encrypted_data.salt),
                                         encrypted_data.iv, encrypted_data.ciphertext)
               IN  [ret |-> IF token # encrypted_data.verification_token
                            THEN Raise(ValueError) ELSE data,
                    key |-> r.key, generator |-> r.generator,
                    token |-> Some(token), derived |-> TRUE, ciphered |-> TRUE]
          : r \in {FindPatternMatchesOf(key, gen, pub.max_positions)}})

\* decrypt_data, encryption.py:173-214: [ret, key, generator] and, for the trace of
\* the call, the token it computed (Nothing: none), whether it derived the
\* symmetric key and whether it ran the cipher
DecryptDataOf(encrypted_data, key, gen) ==
    LET pub == NewPublicKey(encrypted_data.verification_token, DefaultMaxPositions,
                            DefaultFollowDigits)
    IN  Only({
          IF r.ret.raised # None
          THEN [ret |-> r.ret, key |-> r.key, generator |-> r.generator,
                token |-> Nothing, derived |-> FALSE, ciphered |-> FALSE]
          ELSE LET token == HashFollowSequences(FollowSequences(r.ret.value))
               IN  IF token # encrypted_data.verification_token
                   THEN [ret |-> Raise(ValueError), key |-> r.key,
                         generator |-> r.generator,
                         token |-> Some(token), derived |-> FALSE, ciphered |-> FALSE]
                   ELSE [ret |-> AesCbcDecrypt(
                                     DeriveEncryptionKey(pub, encrypted_data.salt),
                                     encrypted_data.iv, encrypted_data.ciphertext),
                         key |-> r.key, generator |-> r.generator,
                         token |-> Some(token), derived |-> TRUE, ciphered |-> TRUE]
          : r \in {FindPatternMatchesOf(key, gen, pub.max_positions)}})

(***************************************************************************)
(* The callers of keys.py and encryption.py: one PrivateKey object A, a    *)
(* second object B that is A reloaded or A with one field changed, the     *)
(* public key bound from A, one envelope made with it.                     *)
(***************************************************************************)
Objects == {"A", "B"}

\* the digits of the key patterns
KeyDigits == {5, 8}


\* the seeds of the keys: two that RandomState takes, and one of 2^32 or more, as
\* secrets.randbits(64) of PrivateKey.generate draws them (keys.py:247-248)
Seeds == {0, 1, SeedLimit}

\* the key patterns: one digit, or one digit twice with a gap
KeyPatterns ==
    {[digits |-> <<d>>, spacing |-> Nothing] : d \in KeyDigits}
    \cup {[digits |-> <<d, d>>, spacing |-> Some(<<MaxSpacing>>)] : d \in KeyDigits}

\* what PrivateKey.to_dict gives for the keys of the model
KeyMaterials ==
    [pi_seed : Seeds, e_seed : Seeds, pattern : KeyPatterns,
     num_offsets : {NumOffsets}, modulus : Moduli, follow_digits : {MaxFollow}]

\* the materials that differ from data in one seed, one pattern digit, one spacing
\* value or the modulus
Variants(data) ==
    {[data EXCEPT !.pi_seed = s] : s \in Seeds \ {data.pi_seed}}
    \cup {[data EXCEPT !.e_seed = s] : s \in Seeds \ {data.e_seed}}
    \cup {[data EXCEPT !.modulus = m] : m \in Moduli \ {data.modulus}}
    \cup UNION {{[data EXCEPT !.pattern.digits[i] = d] : d \in KeyDigits \ {data.pattern.digits[i]}}
                : i \in DOMAIN data.pattern.digits}
    \cup (IF data.pattern.spacing = Nothing THEN {}
          ELSE UNION {{[data EXCEPT !.pattern.spacing = Some([ValueOf(@) EXCEPT ![i] = g])]
                       : g \in (0..MaxSpacing) \ {ValueOf(data.pattern.spacing)[i]}}
                      : i \in DOMAIN ValueOf(data.pattern.spacing)})

\* every material that is a key material of the model with one field changed
VariantMaterials == UNION {Variants(data) : data \in KeyMaterials}

\* data of encrypt_data, and the salt and IV it draws
Messages == {"m1", "m2"}
Salts == {"s1"}
IVs == {"iv1"}

KeyOf(obj) == ValueOf(keys[obj])

\* the record of a call: the operation, the object, max_positions (0: none), what
\* it returned, and for decrypt_data its trace
Called(op, obj, k, ret, token, derived, ciphered) ==
    Some([op |-> op, obj |-> obj, k |-> k, ret |-> ret, token |-> token,
          derived |-> derived, ciphered |-> ciphered])

KeysInit ==
    /\ StoreIdle
    /\ SynIdle
    /\ PatIdle
    /\ AuxIdle
    /\ \E data \in KeyMaterials :
           keys = [o \in Objects |-> IF o = "A" THEN Some(FromDict(data)) ELSE Nothing]
    /\ generator = Nothing
    /\ public_key = Nothing
    /\ envelope = Nothing
    /\ call = Nothing

\* a call of obj.find_pattern_matches(max_positions)
FindPatternMatches(obj, max_positions) ==
    /\ keys[obj] # Nothing
    /\ \E r \in {FindPatternMatchesOf(KeyOf(obj), generator, max_positions)} :
           /\ keys' = [keys EXCEPT ![obj] = Some(r.key)]
           /\ generator' = r.generator
           /\ call' = Called("find_pattern_matches", obj, max_positions, r.ret,
                             Nothing, FALSE, FALSE)
    /\ UNCHANGED <<public_key, envelope>>
    /\ UNCHANGED notkey

\* public_key = A.get_public_key(max_positions)
GetPublicKey(max_positions) ==
    /\ public_key = Nothing
    /\ \E r \in {GetPublicKeyOf(KeyOf("A"), generator, max_positions)} :
           /\ keys' = [keys EXCEPT !["A"] = Some(r.key)]
           /\ generator' = r.generator
           /\ public_key' = IF r.ret.raised = None THEN Some(r.ret.value) ELSE public_key
           /\ call' = Called("get_public_key", "A", max_positions, r.ret,
                             Nothing, FALSE, FALSE)
    /\ UNCHANGED envelope
    /\ UNCHANGED notkey

\* B = PrivateKey.from_json(A.to_json()), keys.py:132-139, 192-204
LoadCopy ==
    /\ keys["B"] = Nothing
    /\ keys' = [keys EXCEPT !["B"] = Some(FromDict(ToDict(KeyOf("A"))))]
    /\ UNCHANGED <<generator, public_key, envelope, call>>
    /\ UNCHANGED notkey

\* B = PrivateKey.from_dict(data), data being A's with one field changed
LoadVariant(data) ==
    /\ keys["B"] = Nothing
    /\ data \in Variants(ToDict(KeyOf("A")))
    /\ keys' = [keys EXCEPT !["B"] = Some(FromDict(data))]
    /\ UNCHANGED <<generator, public_key, envelope, call>>
    /\ UNCHANGED notkey

\* verify_key_pair(obj, public_key)
VerifyKeyPair(obj) ==
    /\ keys[obj] # Nothing
    /\ public_key # Nothing
    /\ \E r \in {VerifyKeyPairOf(KeyOf(obj), generator, ValueOf(public_key))} :
           /\ keys' = [keys EXCEPT ![obj] = Some(r.key)]
           /\ generator' = r.generator
           /\ call' = Called("verify_key_pair", obj, ValueOf(public_key).max_positions,
                             r.ret, Nothing, FALSE, FALSE)
    /\ UNCHANGED <<public_key, envelope>>
    /\ UNCHANGED notkey

\* envelope = encrypt_data(data, public_key)
EncryptData(data, salt, iv) ==
    /\ public_key # Nothing
    /\ envelope = Nothing
    /\ envelope' = Some(EncryptDataOf(data, ValueOf(public_key), salt, iv))
    /\ UNCHANGED <<keys, generator, public_key, call>>
    /\ UNCHANGED notkey

\* decrypt_data(envelope, obj)
DecryptData(obj) ==
    /\ keys[obj] # Nothing
    /\ envelope # Nothing
    /\ \E r \in {DecryptDataOf(ValueOf(envelope), KeyOf(obj), generator)} :
           /\ keys' = [keys EXCEPT ![obj] = Some(r.key)]
           /\ generator' = r.generator
           /\ call' = Called("decrypt_data", obj, DefaultMaxPositions, r.ret, r.token,
                             r.derived, r.ciphered)
    /\ UNCHANGED <<public_key, envelope>>
    /\ UNCHANGED notkey

\* a call of obj.generate_stream(length)
CallGenerateStream(obj, length) ==
    /\ keys[obj] # Nothing
    /\ \E r \in {GenerateStream(KeyOf(obj), generator, length)} :
           /\ generator' = Some(r[2])
           /\ call' = Called("generate_stream", obj, length, r[1], Nothing, FALSE, FALSE)
    /\ UNCHANGED <<keys, public_key, envelope>>
    /\ UNCHANGED notkey

KeysNext ==
    \/ \E o \in Objects : CallGenerateStream(o, KeyStreamLen)
    \/ \E k \in 1..MaxPositions : FindPatternMatches("A", k)
    \/ \E k \in 1..MaxPositions : GetPublicKey(k)
    \/ LoadCopy
    \/ \E data \in VariantMaterials : LoadVariant(data)
    \/ \E o \in Objects : VerifyKeyPair(o)
    \/ \E m \in Messages, s \in Salts, iv \in IVs : EncryptData(m, s, iv)
    \/ \E o \in Objects : DecryptData(o)

SpecKeys == KeysInit /\ [][KeysNext]_vars

(***************************************************************************)
(* Claims about the DigitStore, checked under SpecDigits.                  *)
(***************************************************************************)
TextOf(c) == IF c = "pi" THEN pi_text ELSE e_text

\* the stored fractional digits frac[0..N) of a file: its digits after the radix
\* point, the leading integer digit and the radix point excluded
StoredFraction(text) ==
    LET IsDigitChar(ch) == IsDigit(ch)
    IN  SelectSeq(SubSeq(text, FindDot(text, 0) + 2, Len(text)), IsDigitChar)

Returned == {o \in obs : o.res.raised = None}

\* C8: digit continuity.  Whenever callers were handed digits_at(C, s, L1),
\* digits_at(C, s + L1, L2) and digits_at(C, s, L1 + L2), the first two
\* concatenated equal the third, also past the stored digit count.
C8_DigitContinuity ==
    \A o1 \in Returned, o2 \in Returned, o12 \in Returned :
        ( /\ o1.c = o2.c /\ o1.c = o12.c
          /\ o2.start = o1.start + o1.length
          /\ o12.start = o1.start
          /\ o12.length = o1.length + o2.length )
        => o1.res.value \o o2.res.value = o12.res.value

\* C9: cyclic indexing.  Every call handed back, at each position j, the
\* stored fractional digit frac[(start + j) mod N].
C9_CyclicIndexing ==
    \A o \in Returned :
        LET frac == StoredFraction(TextOf(o.c))
        IN  /\ Len(o.res.value) = o.length
            /\ \A j \in 0..(o.length - 1) :
                   o.res.value[j + 1] = frac[((o.start + j) % Len(frac)) + 1]

\* the backing texts of a constant: the same digits and radix point, with and
\* without a final newline
TextsOf(c) == IF c = "pi" THEN PiFiles ELSE EFiles

\* C23: backing texts that differ only in non-digit characters other than the
\* radix point yield the same digits for every request, also for requests
\* that reach past the stored digit count
C23_NonDigitsIgnored ==
    \A o \in Returned : \A text \in TextsOf(o.c) :
        ExtractDigits(text, o.start, o.length) = o.res.value

(***************************************************************************)
(* Claims about stream synthesis, checked under SpecStream.                *)
(***************************************************************************)
Finished == {t \in DOMAIN streams : streams[t] # Nothing}
StreamOf(t) == ValueOf(streams[t])

\* C6: generate_synthetic_stream returns the same stream for every value of
\* threads, including offsets and lengths that reach past the stored digits.
C6_SameStreamForAllThreads ==
    \A t1 \in Finished, t2 \in Finished : StreamOf(t1) = StreamOf(t2)

\* digits_at(C, k, 1): the single digit a read of length 1 yields
DigitAt(text, k) == ExtractDigits(text, k, 1)[1]

RECURSIVE SumDigitsAt(_, _, _)
SumDigitsAt(text, offsets, i) ==
    IF offsets = <<>> THEN 0
    ELSE DigitAt(text, Head(offsets) + i) + SumDigitsAt(text, Tail(offsets), i)

\* C7: at every index i the returned stream holds the per-digit sum
\* (sum of digits_at(A, o+i, 1) + sum of digits_at(B, o+i, 1)) mod modulus.
C7_StreamIsPerDigitSum ==
    \A t \in Finished :
        /\ Len(StreamOf(t)) = syn_in.length
        /\ \A i \in 0..(syn_in.length - 1) :
               StreamOf(t)[i + 1] =
                   (SumDigitsAt(pi_text, syn_in.pi_offsets, i)
                    + SumDigitsAt(e_text, syn_in.e_offsets, i)) % syn_in.modulus

(***************************************************************************)
(* Claims about Pattern and PatternMatcher, checked under SpecSearch.      *)
(***************************************************************************)
ParallelReturned == par_result # Nothing
ParallelResult == ValueOf(par_result)
SequentialResult == ValueOf(seq_result)

Positions(results) == {results[j][1] : j \in DOMAIN results}

\* C5: for max_positions >= 1, whatever the thread count and the order in which
\* the chunk workers finish, _find_pattern_parallel returns the list
\* _find_pattern_sequential returns for the same arguments, and it omits no match
\* at or after start_from that lies below a match it returns.
C5_ParallelEqualsSequential ==
    (ParallelReturned /\ SearchArgs.max_positions >= 1) =>
        /\ ParallelResult = SequentialResult
        /\ \A p \in Positions(ParallelResult) :
               \A q \in SearchArgs.start_from..(p - 1) :
                   MatchAtPositionOf(pat_in.pattern, pat_in.stream, q)[1]
                       => q \in Positions(ParallelResult)

\* the matches all the chunks hold together
RECURSIVE CountMatches(_)
CountMatches(futures) ==
    IF futures = <<>> THEN 0
    ELSE Len(ValueOf(Head(futures))) + CountMatches(Tail(futures))

\* C5's case: a parallel search over three chunks has returned; the chunks hold
\* more than max_positions matches, the last chunk among them, and the loop
\* broke before it reached the last future
C5_Witness ==
    /\ ParallelReturned
    /\ SearchArgs.max_positions >= 1
    /\ SearchArgs.threads >= 2
    /\ Len(par_futures) >= 3
    /\ CountMatches(par_futures) > SearchArgs.max_positions
    /\ ValueOf(par_futures[Len(par_futures)]) # <<>>
    /\ Len(par_results) < CountMatches(par_futures)
    /\ Len(ParallelResult) = SearchArgs.max_positions

\* the offset c_i of pattern digit i (from 0): c_0 = 0 and
\* c_i = c_(i-1) + 1 + spacing[i-1], or i when the spacing is absent
RECURSIVE DigitOffset(_, _)
DigitOffset(pattern, i) ==
    IF i = 0 THEN 0
    ELSE IF pattern.spacing = Nothing THEN i
    ELSE DigitOffset(pattern, i - 1) + 1 + ValueOf(pattern.spacing)[i]

\* the matching rule at candidate position p
RuleMatches(pattern, stream, p) ==
    \A i \in 0..(Len(pattern.digits) - 1) :
        /\ p + DigitOffset(pattern, i) < Len(stream)
        /\ At(stream, p + DigitOffset(pattern, i)) = pattern.digits[i + 1]

\* C10: at a position p >= 0, match_at_position reports a match exactly when the
\* matching rule holds at p, and then reports the end position p + c_last + 1;
\* a spacing of zeros only is no exception.
C10_MatchRule ==
    (match_obs # Nothing /\ ValueOf(match_obs).start_pos >= 0) =>
        LET p == ValueOf(match_obs).start_pos
            ret == ValueOf(match_obs).ret
            pattern == pat_in.pattern
        IN  /\ ret[1] <=> RuleMatches(pattern, pat_in.stream, p)
            /\ ret[1] => ret[2] = p + DigitOffset(pattern, Len(pattern.digits) - 1) + 1

\* C10's case: a match reported for a pattern whose digits are a gap apart
C10_Witness ==
    /\ match_obs # Nothing
    /\ ValueOf(match_obs).ret[1]
    /\ ValueOf(match_obs).start_pos >= 1
    /\ pat_in.pattern.spacing # Nothing
    /\ \E i \in DOMAIN ValueOf(pat_in.pattern.spacing) :
           ValueOf(pat_in.pattern.spacing)[i] > 0

FindCall == ValueOf(find_obs)

\* the positions at or after start_from where the pattern matches
MatchPositions(start_from) ==
    {q \in start_from..(Len(pat_in.stream) - 1) :
        MatchAtPositionOf(pat_in.pattern, pat_in.stream, q)[1]}

\* C11: for start_from >= 0 and max_positions >= 0, find_pattern returns exactly
\* the min(max_positions, total) lowest-positioned matches at or after start_from,
\* in strictly ascending order of position, and never more than max_positions
C11_FindPatternLowestMatches ==
    find_obs # Nothing =>
        LET ret == FindCall.ret
            all == MatchPositions(FindCall.start_from)
        IN  /\ Len(ret) <= FindCall.max_positions
            /\ Len(ret) = Min(FindCall.max_positions, Cardinality(all))
            /\ \A j \in 1..(Len(ret) - 1) : ret[j][1] < ret[j + 1][1]
            /\ Positions(ret) \subseteq all
            /\ \A p \in Positions(ret) : \A q \in all : q < p => q \in Positions(ret)

\* the end position of a match of the pattern at p: p + c_last + 1
EndPosition(p) == p + DigitOffset(pat_in.pattern, Len(pat_in.pattern.digits) - 1) + 1

\* stream[from .. to), positions counted from 0
Slice(stream, from, to) == [i \in 1..(to - from) |-> stream[from + i]]

\* C12: the follow sequence of every match find_pattern returns is
\* stream[e .. min(e + follow_digits, len(stream))), e being the match's end
\* position: follow_digits values when the stream is long enough, fewer or none
\* otherwise, and the call returns (no error) when it is cut short
C12_FollowSequence ==
    find_obs # Nothing =>
        \A j \in DOMAIN FindCall.ret :
            LET e == EndPosition(FindCall.ret[j][1])
                follow == FindCall.ret[j][2]
            IN  /\ follow = Slice(pat_in.stream, e,
                                  Min(e + pat_in.follow_digits, Len(pat_in.stream)))
                /\ e + pat_in.follow_digits <= Len(pat_in.stream)
                       => Len(follow) = pat_in.follow_digits
                /\ Len(follow) <= pat_in.follow_digits

\* C12's case: one match with all its follow digits and a later one cut short
C12_Witness ==
    /\ find_obs # Nothing
    /\ pat_in.follow_digits = MaxFollow
    /\ \E j \in DOMAIN FindCall.ret : Len(FindCall.ret[j][2]) = MaxFollow
    /\ \E j \in DOMAIN FindCall.ret :
           /\ FindCall.ret[j][2] # <<>>
           /\ Len(FindCall.ret[j][2]) < MaxFollow

ParallelSubmitted == search_args # Nothing /\ SearchArgs.threads > 0

\* the search returned every match at or after start_from
Exhausted(results) ==
    /\ Positions(results) = MatchPositions(SearchArgs.start_from)
    /\ Len(results) = Cardinality(MatchPositions(SearchArgs.start_from))

FewerThanAsked ==
    Cardinality(MatchPositions(SearchArgs.start_from)) < SearchArgs.max_positions

\* C24: a parallel search that was started returns, and a search, sequential
\* or parallel, of a stream holding fewer than max_positions matches returns
\* all the matches there are (none when the pattern is absent)
C24_SearchTerminates ==
    /\ ParallelSubmitted ~> ParallelReturned
    /\ []((seq_result # Nothing /\ FewerThanAsked) => Exhausted(SequentialResult))
    /\ []((ParallelReturned /\ FewerThanAsked) => Exhausted(ParallelResult))

\* C24's case: a parallel search over several chunks returned without a match
C24_Witness ==
    /\ ParallelReturned
    /\ SearchArgs.max_positions >= 1
    /\ Len(par_futures) >= 2
    /\ ParallelResult = <<>>
    /\ SequentialResult = <<>>

Planted == pat_in.stream = PlantedStream /\ pat_in.pattern = PlantedPattern
Nearer == pat_in.stream = PlantedStream /\ pat_in.pattern = NearerPattern

\* stream[end_pos : end_pos + follow_digits] of the planted stream
PlantedFollow(end_pos) ==
    Slice(PlantedStream, end_pos, Min(end_pos + pat_in.follow_digits, Len(PlantedStream)))

\* what a search of the planted stream from its beginning returned: the result
\* of the sequential search or of find_pattern, with max_positions >= 1
PlantedSearches ==
    (IF seq_result # Nothing /\ SearchArgs.start_from <= 2
                             /\ SearchArgs.max_positions >= 1
     THEN {SequentialResult} ELSE {})
    \cup (IF find_obs # Nothing /\ FindCall.start_from <= 2
                                /\ FindCall.max_positions >= 1
          THEN {FindCall.ret} ELSE {})

\* C13 as stated: on the stream [0,0,3,5,5,1,9,9,9,4,7,7] the pattern digits
\* [3,1,9] with spacing [2,3] matches at position 2 with end position 10, and
\* the search yields that match with follow sequence stream[10 : 10 + follow_digits]
C13_PlantedPattern ==
    Planted =>
        /\ (match_obs # Nothing /\ ValueOf(match_obs).start_pos = 2)
               => ValueOf(match_obs).ret = <<TRUE, 10>>
        /\ \A ret \in PlantedSearches : ret = <<(<<2, PlantedFollow(10)>>)>>

\* C13 amended: on that stream position 5 + 1 + 3 = 9 holds 4, so the pattern
\* with spacing [2,3] matches nowhere and the search yields nothing; with
\* spacing [2,2] it matches at position 2 with end position 9, and the search
\* yields that match with follow sequence stream[9 : 9 + follow_digits]
C13_PlantedPatternAmended ==
    /\ Planted =>
          /\ match_obs # Nothing => ValueOf(match_obs).ret = <<FALSE, -1>>
          /\ \A ret \in PlantedSearches : ret = <<>>
    /\ Nearer =>
          /\ (match_obs # Nothing /\ ValueOf(match_obs).start_pos = 2)
                 => ValueOf(match_obs).ret = <<TRUE, 9>>
          /\ \A ret \in PlantedSearches : ret = <<(<<2, PlantedFollow(9)>>)>>

\* C13's case: a search of the planted stream has found the pattern with
\* spacing [2,2] and taken a follow sequence
C13_Witness ==
    /\ Nearer
    /\ pat_in.follow_digits = MaxFollow
    /\ PlantedSearches # {}
    /\ \A ret \in PlantedSearches : Len(ret) = 1 /\ ret[1][1] = 2

(***************************************************************************)
(* streams.py: the three ways into stream synthesis, called with the same  *)
(* arguments.                                                              *)
(***************************************************************************)
\* generate_streams_from_seeds, streams.py:117-152
GenerateStreamsFromSeeds(pi_seed, e_seed, num_offsets, length, modulus, threads) ==
    LET pi_offsets == GenerateOffsetsFromSeed(pi_seed, num_offsets)
        e_offsets == GenerateOffsetsFromSeed(e_seed, num_offsets)
    IN  IF pi_offsets.raised # None THEN pi_offsets
        ELSE IF e_offsets.raised # None THEN e_offsets
        ELSE Return(GenerateSyntheticStreamOf(pi_offsets.value, e_offsets.value, length,
                                              modulus, threads))

\* StreamGenerator(pi_offsets, e_offsets), streams.py:197-219
NewStreamGeneratorWith(pi_offsets, e_offsets) ==
    [NewStreamGenerator EXCEPT !.pi_offsets = pi_offsets, !.e_offsets = e_offsets]

EntryInit ==
    /\ StoreIdle
    /\ SynIdle
    /\ PatIdle
    /\ KeysIdle
    /\ find_obs = Nothing
    /\ gen_obs = {}
    /\ args \in [pi_offsets : SeqsUpTo(Offsets, 1), e_offsets : SeqsUpTo(Offsets, 1),
                  pi_seed : {0, 1}, e_seed : {0}, num_offsets : {0, NumOffsets},
                  length : StreamLengths]
    /\ rets = [direct |-> Nothing, seeds |-> Nothing, generate |-> Nothing]

\* generate_synthetic_stream(pi_offsets, e_offsets, length)
CallGenerateSyntheticStream ==
    /\ rets.direct = Nothing
    /\ rets' = [rets EXCEPT !.direct =
                    Some(Return(GenerateSyntheticStreamOf(args.pi_offsets, args.e_offsets,
                                                          args.length, DefaultModulus,
                                                          Nothing)))]
    /\ UNCHANGED <<digvars, synvars, patvars, keyvars, find_obs, gen_obs, args>>

\* generate_streams_from_seeds(pi_seed, e_seed, num_offsets, length)
CallGenerateStreamsFromSeeds ==
    /\ rets.seeds = Nothing
    /\ rets' = [rets EXCEPT !.seeds =
                    Some(GenerateStreamsFromSeeds(args.pi_seed, args.e_seed,
                                                  args.num_offsets, args.length,
                                                  DefaultModulus, Nothing))]
    /\ UNCHANGED <<digvars, synvars, patvars, keyvars, find_obs, gen_obs, args>>

\* StreamGenerator(pi_offsets, e_offsets).generate(length)
CallGenerate ==
    /\ rets.generate = Nothing
    /\ rets' = [rets EXCEPT !.generate =
                    Some(Generate(NewStreamGeneratorWith(args.pi_offsets, args.e_offsets),
                                  args.length)[1])]
    /\ UNCHANGED <<digvars, synvars, patvars, keyvars, find_obs, gen_obs, args>>

EntryNext ==
    \/ CallGenerateSyntheticStream
    \/ CallGenerateStreamsFromSeeds
    \/ CallGenerate

SpecEntry == EntryInit /\ [][EntryNext]_vars

(***************************************************************************)
(* Claims about the range cache, checked under SpecCache.                  *)
(***************************************************************************)
TextOfConstant(c) == IF c = "pi" THEN pi_text ELSE e_text
CacheOfConstant(c) == IF c = "pi" THEN pi_cache ELSE e_cache

\* C21: whatever calls were made before and whatever the caller wrote into
\* the arrays it was returned, a read returns what a store with an empty
\* cache returns for that request, and every cached array still holds it
C21_CacheNotObservable ==
    /\ \A o \in obs :
           o.res = DigitsResult(TextOfConstant(o.c), EmptyCache, o.start, o.length)
    /\ \A c \in {"pi", "e"} : \A key \in DOMAIN CacheOfConstant(c) :
           args[CacheOfConstant(c)[key]]
               = ExtractDigits(TextOfConstant(c), key[1], key[2])

\* C21's case: a request was answered from the cache although the caller had
\* written into the array an earlier call with that request returned
C21_Witness ==
    \E key \in DOMAIN pi_cache : \E id1, id2 \in rets :
        /\ id1 < pi_cache[key]
        /\ pi_cache[key] < id2
        /\ args[id1] # args[pi_cache[key]]
        /\ args[id2] = args[pi_cache[key]]
        /\ Len(args[id1]) = Len(args[id2])
        /\ Cardinality(DOMAIN pi_cache) = 1 /\ DOMAIN e_cache = {}
        /\ ~mmap_open

(***************************************************************************)
(* Claims about concurrent readers, checked under SpecThreads.             *)
(***************************************************************************)
\* C22: in every reachable state, with threads reading concurrently through
\* one DigitStore, each range cache holds at most CacheLimit entries
C22_CacheBounded ==
    /\ Cardinality(DOMAIN pi_cache) <= CacheLimit
    /\ Cardinality(DOMAIN e_cache) <= CacheLimit

(***************************************************************************)
(* Claims about the digit files, checked under SpecSource.                 *)
(***************************************************************************)
\* the file is missing or differs from the known beginning somewhere
BadSource(file, known) == file = Nothing \/ ValueOf(file) # known

\* C20: when a digit file is missing or its beginning differs anywhere from
\* the known prefix, every read of it fails with an error and yields no digit
C20_BadSourceFails ==
    /\ (BadSource(args.pi, PiStart) /\ rets.pi # Nothing)
           => ValueOf(rets.pi).raised # None
    /\ (BadSource(args.e, EStart) /\ rets.e # Nothing)
           => ValueOf(rets.e).raised # None

(***************************************************************************)
(* Claims about the ways into synthesis, checked under SpecEntry.          *)
(***************************************************************************)
Failed(slot) == ValueOf(slot).raised # None

\* C19: synthesis fails with an error whenever both offset lists are empty,
\* whichever way it is entered: generate_synthetic_stream,
\* generate_streams_from_seeds with num_offsets = 0, StreamGenerator.generate
C19_NoOffsetsFails ==
    /\ (args.pi_offsets = <<>> /\ args.e_offsets = <<>>) =>
          /\ rets.direct # Nothing => Failed(rets.direct)
          /\ rets.generate # Nothing => Failed(rets.generate)
    /\ (args.num_offsets = 0 /\ rets.seeds # Nothing) => Failed(rets.seeds)

(***************************************************************************)
(* patterns.py, keys.py: construction of a Pattern and of a PrivateKey     *)
(* holding it.                                                             *)
(***************************************************************************)
\* Pattern.__init__, patterns.py:19-37
NewPattern(digits, spacing) ==
    IF spacing # Nothing /\ Len(ValueOf(spacing)) # Len(digits) - 1
    THEN Raise(ValueError)
    ELSE Return([digits |-> digits, spacing |-> spacing])

\* digits that lie in [0, 3), in [0, 10) only, and in neither
GivenDigits == {0, 5, 12}
MaxGivenLen == 2

ConstructInit ==
    /\ StoreIdle
    /\ SynIdle
    /\ PatIdle
    /\ KeysIdle
    /\ find_obs = Nothing
    /\ gen_obs = {}
    /\ args \in [digits : SeqsUpTo(GivenDigits, MaxGivenLen),
                  spacing : {Nothing} \cup {Some(sp) : sp \in SeqsUpTo({0, 1}, MaxGivenLen)},
                  modulus : Moduli]
    /\ rets = [pattern |-> Nothing, key |-> Nothing]

\* Pattern(digits, spacing)
ConstructPattern ==
    /\ rets.pattern = Nothing
    /\ rets' = [rets EXCEPT !.pattern = Some(NewPattern(args.digits, args.spacing))]
    /\ UNCHANGED <<digvars, synvars, patvars, keyvars, find_obs, gen_obs, args>>

\* PrivateKey(pi_seed, e_seed, pattern, num_offsets, modulus) with the pattern made
ConstructPrivateKey ==
    /\ rets.pattern # Nothing
    /\ ValueOf(rets.pattern).raised = None
    /\ rets.key = Nothing
    /\ rets' = [rets EXCEPT !.key =
                    Some(Return(NewPrivateKey(0, 1, ValueOf(rets.pattern).value, NumOffsets,
                                              args.modulus, DefaultFollowDigits)))]
    /\ UNCHANGED <<digvars, synvars, patvars, keyvars, find_obs, gen_obs, args>>

ConstructNext == ConstructPattern \/ ConstructPrivateKey

SpecConstruct == ConstructInit /\ [][ConstructNext]_vars

(***************************************************************************)
(* Claims about construction, checked under SpecConstruct.                 *)
(***************************************************************************)
BadSpacing == args.spacing # Nothing /\ Len(ValueOf(args.spacing)) # Len(args.digits) - 1
BadDigit == \E i \in DOMAIN args.digits : args.digits[i] \notin 0..(args.modulus - 1)

\* C18: construction fails at once when the spacing is not one shorter than
\* the digits, and when a digit lies outside [0, modulus)
C18_InvariantsEnforced ==
    /\ (rets.pattern # Nothing /\ BadSpacing) => ValueOf(rets.pattern).raised # None
    /\ (rets.key # Nothing /\ BadDigit) => ValueOf(rets.key).raised # None

(***************************************************************************)
(* Claims about the token hash, checked under SpecHash.                    *)
(***************************************************************************)
\* C14: two lists of follow sequences with values in [0, modulus) have the same
\* hash exactly when they are the same list of sequences in the same order
C14_HashInjective ==
    (rets.h1 # Nothing /\ rets.h2 # Nothing) =>
        (ValueOf(rets.h1) = ValueOf(rets.h2) <=> args.s1 = args.s2)

(***************************************************************************)
(* Claims about key derivation, checked under SpecDerive.                  *)
(***************************************************************************)
\* h(n) of the chain: h(0) = Hash(token || salt), h(n+1) = Hash(h(n) || token || salt)
RECURSIVE ChainBlock(_, _, _)
ChainBlock(n, token, salt) ==
    IF n = 0 THEN Digest(token \o salt)
    ELSE Digest(ChainBlock(n - 1, token, salt) \o token \o salt)

\* h(0) || h(1) || ... || h(n)
RECURSIVE ChainOutput(_, _, _)
ChainOutput(n, token, salt) ==
    IF n = 0 THEN ChainBlock(0, token, salt)
    ELSE ChainOutput(n - 1, token, salt) \o ChainBlock(n, token, salt)

\* C15: derive_encryption_key returns exactly key_bytes bytes, the first
\* key_bytes bytes of h(0) || h(1) || ..., so that the key for a shorter length
\* is a prefix of the key for a longer length
C15_DeriveChain ==
    /\ \A r \in rets :
           /\ Len(r.ret) = r.key_bytes
           /\ r.ret = SubSeq(ChainOutput(r.key_bytes, args.verification_token, args.salt),
                             1, r.key_bytes)
    /\ \A r1, r2 \in rets :
           r1.key_bytes <= r2.key_bytes => r1.ret = SubSeq(r2.ret, 1, r1.key_bytes)

\* C15's case: a key longer than two digests and a key shorter than one were
\* derived from the same token and salt
C15_Witness ==
    /\ \E r \in rets : r.key_bytes > 2 * DigestLen
    /\ \E r \in rets : r.key_bytes < DigestLen
    /\ args.salt # <<>>
    /\ args.verification_token # <<>>

(***************************************************************************)
(* Claims about offset derivation, checked under SpecOffsets.              *)
(***************************************************************************)
DerivedOffsets(ret, count) ==
    /\ ret.raised = None
    /\ Len(ret.value) = count
    /\ \A i \in DOMAIN ret.value : ret.value[i] \in 0..(MaxOffset - 1)

\* C16: for every seed below 2^64 and every count >= 0, offset derivation
\* succeeds and returns exactly count offsets, each in [0, max_offset)
C16_OffsetsForEverySeed ==
    /\ rets.pi_offsets # Nothing => DerivedOffsets(ValueOf(rets.pi_offsets), args.count)
    /\ rets.e_offsets # Nothing => DerivedOffsets(ValueOf(rets.e_offsets), args.count)

(***************************************************************************)
(* Claims about the shared stream generator, checked under SpecGenerator.  *)
(***************************************************************************)
SameArguments(o1, o2) ==
    /\ o1.pi_seed = o2.pi_seed
    /\ o1.e_seed = o2.e_seed
    /\ o1.num_offsets = o2.num_offsets
    /\ o1.modulus = o2.modulus
    /\ o1.length = o2.length

\* C17: two calls of get_synthetic_stream with identical seeds, num_offsets,
\* modulus and length return identical streams, whatever calls were made on
\* the shared generator in between
C17_Deterministic ==
    \A o1, o2 \in gen_obs : SameArguments(o1, o2) => o1.ret = o2.ret

(***************************************************************************)
(* Claims about keys and envelopes, checked under SpecKeys.                *)
(***************************************************************************)
LastCall == ValueOf(call)

\* obj holds the material the public key was bound from (A's)
SameMaterial(obj) == ToDict(KeyOf(obj)) = ToDict(KeyOf("A"))

ReturnedValue(c, v) == c.ret.raised = None /\ c.ret.value = v

\* C1: for every private key material and every max_positions k >= 1,
\* get_public_key(k) yields a public key and verify_key_pair of that public key
\* returns true, with the object that produced it and with an equal copy reloaded
\* from its serialized form
C1_VerifyRoundTrip ==
    call # Nothing =>
        /\ LastCall.op = "get_public_key" => LastCall.ret.raised = None
        /\ (LastCall.op = "verify_key_pair" /\ SameMaterial(LastCall.obj))
               => ReturnedValue(LastCall, TRUE)

\* C2: decrypt_data of encrypt_data(m, public) with the private key material the
\* public key was bound from, the same object or a freshly loaded equal copy,
\* returns exactly m, whatever max_positions the public key was bound with
C2_DecryptRoundTrip ==
    (call # Nothing /\ LastCall.op = "decrypt_data" /\ SameMaterial(LastCall.obj))
        => ReturnedValue(LastCall, ValueOf(envelope).ciphertext.data)

\* the token decrypt_data computed is the envelope's
TokenAgrees == LastCall.token = Some(ValueOf(envelope).verification_token)

\* C3: decrypt_data recomputes the token from the private key first; whenever it
\* is not the envelope's verification_token the call fails with an error, has
\* derived no symmetric key, has run no cipher step and returns no plaintext
C3_MismatchFailsBeforeDerivation ==
    (call # Nothing /\ LastCall.op = "decrypt_data") =>
        /\ (LastCall.derived \/ LastCall.ciphered) => TokenAgrees
        /\ ~TokenAgrees => LastCall.ret.raised # None

\* a decrypt_data call that computed a token other than the envelope's and failed
C3_Witness ==
    /\ call # Nothing
    /\ LastCall.op = "decrypt_data"
    /\ LastCall.token # Nothing
    /\ ~TokenAgrees
    /\ LastCall.ret = Raise(ValueError)
    /\ ~LastCall.derived
    /\ ~LastCall.ciphered

\* the follow sequences the bind procedure defines for a material: the offsets of
\* both seeds, the stream synthesized from them with the material's own modulus,
\* the pattern search up to max_positions
BindFollowSequences(data, max_positions) ==
    LET pi_offsets == GenerateOffsetsFromSeed(data.pi_seed, data.num_offsets)
        e_offsets == GenerateOffsetsFromSeed(data.e_seed, data.num_offsets)
    IN  IF pi_offsets.raised # None \/ e_offsets.raised # None
        THEN Raise(ValueError)
        ELSE Return(FollowSequences(FindPatternOf(
                 data.pattern,
                 GenerateSyntheticStreamOf(pi_offsets.value, e_offsets.value, KeyStreamLen,
                                           data.modulus, Nothing),
                 max_positions, 0, Nothing, data.follow_digits)))

\* C4: if B differs from A in exactly one field among the seeds, a pattern digit,
\* a spacing value and the modulus, and the first max_positions follow sequences
\* the bind procedure defines for B differ from A's, then
\* verify_key_pair(B, A.get_public_key(k)) returns false
C4_ChangedFieldFailsVerify ==
    (/\ call # Nothing
     /\ LastCall.op = "verify_key_pair"
     /\ LastCall.obj = "B"
     /\ ToDict(KeyOf("B")) \in Variants(ToDict(KeyOf("A")))
     /\ BindFollowSequences(ToDict(KeyOf("B")), LastCall.k)
            # BindFollowSequences(ToDict(KeyOf("A")), LastCall.k))
        => ReturnedValue(LastCall, FALSE)

\* a key built anew from the same material: no call has been made on it
FreshEqual(key) == FromDict(ToDict(key))

\* the step is one of the calls on a key that use its matches: the loading of B
\* and encrypt_data are the steps that fill keys["B"] or the envelope
IsCallOnKey ==
    /\ call' # Nothing
    /\ ValueOf(call').op # "generate_stream"
    /\ (keys'["B"] = Nothing) = (keys["B"] = Nothing)
    /\ (envelope' = Nothing) = (envelope = Nothing)

\* what the call recorded in c returns when made on a fresh key of equal material
OnFreshKey(c) ==
    LET fresh == FreshEqual(KeyOf(c.obj))
    IN  CASE c.op = "find_pattern_matches" ->
                 FindPatternMatchesOf(fresh, generator, c.k).ret
          [] c.op = "get_public_key" -> GetPublicKeyOf(fresh, generator, c.k).ret
          [] c.op = "verify_key_pair" ->
                 VerifyKeyPairOf(fresh, generator, ValueOf(public_key)).ret
          [] c.op = "decrypt_data" ->
                 DecryptDataOf(ValueOf(envelope), fresh, generator).ret

\* C25: after any sequence of calls on one PrivateKey, a call with parameter k
\* returns what the same call returns on a fresh key of equal material, i.e. it
\* uses exactly the first min(k, total) matches of the key's stream
C25_CallsIndependentOfHistory ==
    [][IsCallOnKey => ValueOf(call').ret = OnFreshKey(ValueOf(call'))]_vars

\* the stream the key's fields define: the offsets of both seeds, synthesized
\* with the key's own modulus
StreamOfKey(key, length) ==
    GenerateSyntheticStreamOf(GenerateOffsetsFromSeed(key.pi_seed, key.num_offsets).value,
                              GenerateOffsetsFromSeed(key.e_seed, key.num_offsets).value,
                              length, key.modulus, Nothing)

\* C26: the stream PrivateKey.generate_stream(length) returns is the one
\* synthesized from the key's seeds with the key's own modulus
C26_StreamUsesKeyModulus ==
    (call # Nothing /\ LastCall.op = "generate_stream" /\ LastCall.ret.raised = None)
        => LastCall.ret.value = StreamOfKey(KeyOf(LastCall.obj), LastCall.k)

\* the symmetric key the envelope's token and salt define
KeyOfEnvelope(e) == Sha256([verification_token |-> e.verification_token, salt |-> e.salt])

\* C28: the symmetric key encrypt_data and decrypt_data use is a function of
\* the envelope's verification_token and salt only: the envelope was ciphered
\* with that key, and a decrypt_data call that derives a key deciphers with it,
\* whatever max_positions the public key was bound with and whichever key
\* object decrypts
C28_KeyFromTokenAndSalt ==
    /\ envelope # Nothing =>
           ValueOf(envelope).ciphertext.key = KeyOfEnvelope(ValueOf(envelope))
    /\ (call # Nothing /\ LastCall.op = "decrypt_data" /\ LastCall.derived) =>
           LastCall.ret = AesCbcDecrypt(KeyOfEnvelope(ValueOf(envelope)),
                                        ValueOf(envelope).iv,
                                        ValueOf(envelope).ciphertext)

\* C28's case: an envelope made with a public key bound with max_positions other
\* than decrypt_data's default was deciphered
C28_Witness ==
    /\ call # Nothing
    /\ LastCall.op = "decrypt_data"
    /\ LastCall.derived
    /\ LastCall.ciphered
    /\ ValueOf(public_key).max_positions # DefaultMaxPositions
    /\ LastCall.ret = Return(ValueOf(envelope).ciphertext.data)

\* the pattern of obj's key has no match in the stream the key generates
NoMatch(obj) ==
    LET stream == GenerateStream(KeyOf(obj), generator, KeyStreamLen)[1]
    IN  /\ stream.raised = None
        /\ FindPatternOf(KeyOf(obj).pattern, stream.value, DefaultMaxPositions, 0,
                         Nothing, KeyOf(obj).follow_digits) = <<>>

\* C30: when the pattern of a private key has no match in its stream,
\* get_public_key succeeds and returns the token that is the hash of the empty
\* string, and verify_key_pair of that public key returns true for every private
\* key that has no match either, whatever its seeds and pattern
C30_NoMatchKeysVerify ==
    (call # Nothing /\ NoMatch("A")) =>
        /\ LastCall.op = "get_public_key" =>
               /\ LastCall.ret.raised = None
               /\ LastCall.ret.value.verification_token = Sha256(<<>>)
        /\ (LastCall.op = "verify_key_pair" /\ NoMatch(LastCall.obj)) =>
               ReturnedValue(LastCall, TRUE)

\* C30's case: the public key of a key without a match was verified with
\* another key, of different material, that has no match either
C30_Witness ==
    /\ call # Nothing
    /\ LastCall.op = "verify_key_pair"
    /\ LastCall.obj = "B"
    /\ ~SameMaterial("B")
    /\ NoMatch("A")
    /\ NoMatch("B")
    /\ ValueOf(public_key).verification_token = Sha256(<<>>)
    /\ ReturnedValue(LastCall, TRUE)

(***************************************************************************)
(* Claims about the StreamGenerator's cache, checked under SpecStreamCache. *)
(***************************************************************************)
\* C29: whatever set_parameters, from_seeds, generate and clear_cache calls were
\* made and whatever the caller wrote into the arrays it was returned,
\* generate(length) returns the stream a fresh synthesis with the generator's
\* offsets and modulus at the call returns, every cached array holds the stream
\* of the current parameters, and the cache holds at most 10 entries
C29_StreamCacheNotObservable ==
    /\ call # Nothing =>
           LastCall.ret = Return(SynthesizeWith(LastCall.g, LastCall.length))
    /\ \A length \in DOMAIN ValueOf(generator).cache :
           args[ValueOf(generator).cache[length]]
               = SynthesizeWith(ValueOf(generator), length)
    /\ Cardinality(DOMAIN ValueOf(generator).cache) <= StreamCacheLimit

\* C29's case: with the cache full, a request was answered from the cache
\* although the caller had written into the array it was returned for the same
\* length before
C29_Witness ==
    /\ call # Nothing
    /\ LastCall.length \in DOMAIN LastCall.g.cache
    /\ Cardinality(DOMAIN ValueOf(generator).cache) = StreamCacheLimit
    /\ \E id \in rets \ {ValueOf(LastCall.id)} :
           /\ Len(args[id]) = LastCall.length
           /\ args[id] # LastCall.ret.value

(***************************************************************************)
(* Claims about the accumulation, checked under SpecAccumulate.            *)
(***************************************************************************)
\* C27: for every modulus in [2, 255] and any number of offsets the uint8
\* accumulation never overflows: after each turn every position holds the sum
\* of the digits added so far, reduced by the modulus
C27_AccumulationExact ==
    \A j \in 1..args.length :
        rets.result[j]
            = (rets.pi_done * PiChunk[j] + rets.e_done * EChunk[j]) % args.modulus

====
